---- MODULE Spec2Model ----
(***************************************************************************)
(* KudosTracker: the account registry and kudos ledger of the contract,    *)
(* as a state machine.  Every external function of the contract is one     *)
(* action; a call that hits a failing require reverts, i.e. leaves the     *)
(* whole state as it was.  The outcome of a call is the value of its       *)
(* ...Error operator in the state the call is applied to: "ok", or the     *)
(* message of the first failing require.  Transactions are applied one at  *)
(* a time, in any order.                                                   *)
(***************************************************************************)
EXTENDS Integers, Sequences, FiniteSets, TLC

\* ------------------------------------------------------------------ bounds

\* block.timestamp of the deployment block
StartTime == 1
\* how many times the block timestamp advances in a behaviour
MaxTicks == 4
\* the same bound of the specification SpecLedger
LedgerTicks == 1
\* the largest _limit getLeaderboard is called with
MaxLimit == 4

\* ------------------------------------------------------- program constants

DELETION_GRACE_PERIOD == 604800
REREGISTRATION_COOLDOWN == 2592000
MIN_HANDLE_LENGTH == 3
MAX_HANDLE_LENGTH == 15

\* ------------------------------------------------------------ input domains

\* address(0), the value of an unset mapping(string => address) entry
ZeroAddress == 0
\* the externally owned accounts that send transactions
Addresses == {1, 2}

\* Handles are strings, modelled as the sequence of their bytes.
HandleAlice == <<97, 108, 105>>
HandleBob == <<98, 111, 98>>
HandleCarol == <<99, 95, 57>>
HandleShort == <<97, 98>>
HandleDash == <<97, 45, 98>>
HandleLong == <<97, 97, 97, 97, 97, 97, 97, 97, 97, 97, 97, 97, 97, 97, 97, 97>>
HandleEmpty == <<>>
Handles ==
    {HandleAlice, HandleBob, HandleCarol, HandleShort, HandleDash, HandleLong}
\* the handles giveKudos is called with: the well-formed ones and one that is
\* never bound
KudosHandles == {HandleAlice, HandleBob, HandleCarol, HandleDash}

\* Tweet URLs; "" is the empty string (bytes(_tweetUrl).length = 0).  A URL is
\* consumed by the kudos it backs, so the URLs bound the length of the history.
TweetUrls == {"", "t1", "t2"}
\* the URLs giveKudos is called with under Spec and under SpecLedger
SpecUrls == {"", "t1"}
LedgerUrls == TweetUrls

\* The amounts by which block.timestamp advances, in this order and then over
\* again: to one second before the end of a grace period that started at the
\* first instant, to its end, and likewise for a cooldown that started there.
TimeSteps ==
    <<DELETION_GRACE_PERIOD - 1, 1, REREGISTRATION_COOLDOWN - 1, 1>>

\* ---------------------------------------------------------------- storage

VARIABLES
    users,              \* mapping(address => User)
    handleToAddress,    \* mapping(string => address)
    processedTweets,    \* mapping(string => bool)
    deletedHandles,     \* mapping(string => bool)
    lastDeletionTime,   \* mapping(address => uint256)
    privateProfiles,    \* mapping(address => bool)
    kudosHistory,       \* KudosTransaction[]
    now,                \* block.timestamp
    ticks,              \* number of timestamp advances so far
    userRegistered,     \* number of UserRegistered events emitted per handle
    webhook,            \* the webhook's POST handler: its position and locals
    form                \* the registration form: its state, timer and checks

storage ==
    <<users, handleToAddress, processedTweets, deletedHandles, lastDeletionTime,
      privateProfiles, kudosHistory>>

vars ==
    <<users, handleToAddress, processedTweets, deletedHandles, lastDeletionTime,
      privateProfiles, kudosHistory, now, ticks, userRegistered, webhook, form>>

\* what runs off the chain
client == <<webhook, form>>

\* No handle: the mention of a tweet without kudos, a timer that is not set.
NoHandle == <<0>>

\* The POST handler between two tweets, with nothing reported yet.
WebhookIdle ==
    [pc |-> "idle", giver |-> NoHandle, recipient |-> NoHandle, id |-> "",
     giverAddress |-> ZeroAddress, status |-> "", appended |-> 0]

\* The registration form as mounted: the useState and useRef initial values;
\* "null", "true" and "false" stand for the three values of handleAvailable.
\* checks are the availability checks under way and resultFor the handle the
\* value of handleAvailable was computed for.
FormMounted ==
    [xHandle |-> HandleEmpty, handleAvailable |-> "null", checkingHandle |-> FALSE,
     debounceTimer |-> NoHandle, checks |-> <<>>, resultFor |-> NoHandle]

ClientInit ==
    /\ webhook = WebhookIdle
    /\ form = FormMounted

\* The zero value of the User struct: what an unset or deleted entry reads as.
NoUser ==
    [xHandle |-> HandleEmpty, kudosReceived |-> 0, kudosGiven |-> 0,
     isRegistered |-> FALSE, registeredAt |-> 0, deletionRequestedAt |-> 0]

Init ==
    /\ users = [a \in Addresses |-> NoUser]
    /\ handleToAddress = [h \in Handles |-> ZeroAddress]
    /\ processedTweets = [u \in TweetUrls |-> FALSE]
    /\ deletedHandles = [h \in Handles |-> FALSE]
    /\ lastDeletionTime = [a \in Addresses |-> 0]
    /\ privateProfiles = [a \in Addresses |-> FALSE]
    /\ kudosHistory = <<>>
    /\ now = StartTime
    /\ ticks = 0
    /\ userRegistered = [h \in Handles |-> 0]
    /\ ClientInit

\* ------------------------------------------------------------ pure helpers

\* _isValidHandle: every byte is 0-9, A-Z, a-z or _ (no length check).
ValidChar(c) ==
    \/ (c >= 48 /\ c <= 57)
    \/ (c >= 65 /\ c <= 90)
    \/ (c >= 97 /\ c <= 122)
    \/ c = 95

IsValidHandle(h) == \A i \in 1..Len(h) : ValidChar(h[i])

\* ------------------------------------------------------------- registerUser

\* registerUser without require(!users[msg.sender].isRegistered)
RegisterErrorSkipsRegistered(sender, h) ==
    IF Len(h) < MIN_HANDLE_LENGTH THEN "Handle too short"
    ELSE IF Len(h) > MAX_HANDLE_LENGTH THEN "Handle too long"
    ELSE IF ~IsValidHandle(h) THEN "Invalid handle format"
    ELSE IF handleToAddress[h] # ZeroAddress THEN "Handle already taken"
    ELSE IF deletedHandles[h] THEN "Handle permanently retired"
    ELSE IF /\ lastDeletionTime[sender] > 0
            /\ now < lastDeletionTime[sender] + REREGISTRATION_COOLDOWN
         THEN "Reregistration cooldown period active"
    ELSE "ok"

\* registerUser without require(handleToAddress[_xHandle] == address(0))
RegisterErrorSkipsTaken(sender, h) ==
    IF Len(h) < MIN_HANDLE_LENGTH THEN "Handle too short"
    ELSE IF Len(h) > MAX_HANDLE_LENGTH THEN "Handle too long"
    ELSE IF ~IsValidHandle(h) THEN "Invalid handle format"
    ELSE IF users[sender].isRegistered THEN "User already registered"
    ELSE IF deletedHandles[h] THEN "Handle permanently retired"
    ELSE IF /\ lastDeletionTime[sender] > 0
            /\ now < lastDeletionTime[sender] + REREGISTRATION_COOLDOWN
         THEN "Reregistration cooldown period active"
    ELSE "ok"

\* registerUser without require(!deletedHandles[_xHandle])
RegisterErrorSkipsRetired(sender, h) ==
    IF Len(h) < MIN_HANDLE_LENGTH THEN "Handle too short"
    ELSE IF Len(h) > MAX_HANDLE_LENGTH THEN "Handle too long"
    ELSE IF ~IsValidHandle(h) THEN "Invalid handle format"
    ELSE IF users[sender].isRegistered THEN "User already registered"
    ELSE IF handleToAddress[h] # ZeroAddress THEN "Handle already taken"
    ELSE IF /\ lastDeletionTime[sender] > 0
            /\ now < lastDeletionTime[sender] + REREGISTRATION_COOLDOWN
         THEN "Reregistration cooldown period active"
    ELSE "ok"

\* registerUser with the cooldown compared with > instead of >=
RegisterErrorCooldownOffByOne(sender, h) ==
    IF Len(h) < MIN_HANDLE_LENGTH THEN "Handle too short"
    ELSE IF Len(h) > MAX_HANDLE_LENGTH THEN "Handle too long"
    ELSE IF ~IsValidHandle(h) THEN "Invalid handle format"
    ELSE IF users[sender].isRegistered THEN "User already registered"
    ELSE IF handleToAddress[h] # ZeroAddress THEN "Handle already taken"
    ELSE IF deletedHandles[h] THEN "Handle permanently retired"
    ELSE IF /\ lastDeletionTime[sender] > 0
            /\ now <= lastDeletionTime[sender] + REREGISTRATION_COOLDOWN
         THEN "Reregistration cooldown period active"
    ELSE "ok"

\* registerUser with the cooldown checked before the handle is looked up
RegisterErrorCooldownFirst(sender, h) ==
    IF Len(h) < MIN_HANDLE_LENGTH THEN "Handle too short"
    ELSE IF Len(h) > MAX_HANDLE_LENGTH THEN "Handle too long"
    ELSE IF ~IsValidHandle(h) THEN "Invalid handle format"
    ELSE IF users[sender].isRegistered THEN "User already registered"
    ELSE IF /\ lastDeletionTime[sender] > 0
            /\ now < lastDeletionTime[sender] + REREGISTRATION_COOLDOWN
         THEN "Reregistration cooldown period active"
    ELSE IF handleToAddress[h] # ZeroAddress THEN "Handle already taken"
    ELSE IF deletedHandles[h] THEN "Handle permanently retired"
    ELSE "ok"

\* The first failing require of registerUser, or "ok".
RegisterError(sender, h) ==
    IF Len(h) < MIN_HANDLE_LENGTH THEN "Handle too short"
    ELSE IF Len(h) > MAX_HANDLE_LENGTH THEN "Handle too long"
    ELSE IF ~IsValidHandle(h) THEN "Invalid handle format"
    ELSE IF users[sender].isRegistered THEN "User already registered"
    ELSE IF handleToAddress[h] # ZeroAddress THEN "Handle already taken"
    ELSE IF deletedHandles[h] THEN "Handle permanently retired"
    ELSE IF /\ lastDeletionTime[sender] > 0
            /\ now < lastDeletionTime[sender] + REREGISTRATION_COOLDOWN
         THEN "Reregistration cooldown period active"
    ELSE "ok"

NewUser(h) ==
    [xHandle |-> h, kudosReceived |-> 0, kudosGiven |-> 0,
     isRegistered |-> TRUE, registeredAt |-> now, deletionRequestedAt |-> 0]

RegisterUser(sender, h) ==
    LET e == RegisterError(sender, h) IN
    /\ UNCHANGED <<now, ticks>>
    /\ IF e = "ok"
       THEN /\ users' = [users EXCEPT ![sender] = NewUser(h)]
            /\ handleToAddress' = [handleToAddress EXCEPT ![h] = sender]
            /\ userRegistered' = [userRegistered EXCEPT ![h] = @ + 1]
            /\ UNCHANGED <<processedTweets, deletedHandles, lastDeletionTime,
                           privateProfiles, kudosHistory>>
       ELSE UNCHANGED <<storage, userRegistered>>

\* ------------------------------------------- request / cancel the deletion

\* modifier onlyRegistered
OnlyRegisteredError(sender) ==
    IF ~users[sender].isRegistered THEN "User not registered"
    ELSE IF users[sender].deletionRequestedAt # 0 THEN "Account pending deletion"
    ELSE "ok"

\* modifier notPendingDeletion
NotPendingDeletionError(sender) ==
    IF users[sender].deletionRequestedAt # 0 THEN "Account pending deletion"
    ELSE "ok"

\* requestAccountDeletion that accepts an account already pending deletion
RequestErrorAllowsPending(sender) ==
    IF ~users[sender].isRegistered THEN "User not registered" ELSE "ok"

\* The first failing require of requestAccountDeletion (modifier first), or
\* "ok".
RequestError(sender) ==
    IF OnlyRegisteredError(sender) # "ok" THEN OnlyRegisteredError(sender)
    ELSE IF users[sender].deletionRequestedAt # 0 THEN "Deletion already requested"
    ELSE "ok"

RequestAccountDeletion(sender) ==
    LET e == RequestError(sender) IN
    /\ UNCHANGED <<now, ticks, userRegistered>>
    /\ IF e = "ok"
       THEN /\ users' = [users EXCEPT ![sender].deletionRequestedAt = now]
            /\ UNCHANGED <<handleToAddress, processedTweets, deletedHandles,
                           lastDeletionTime, privateProfiles, kudosHistory>>
       ELSE UNCHANGED storage

\* cancelAccountDeletion that is refused once the grace period has elapsed
CancelErrorOnlyInGrace(sender) ==
    IF ~users[sender].isRegistered THEN "User not registered"
    ELSE IF ~(users[sender].deletionRequestedAt > 0) THEN "No deletion request pending"
    ELSE IF now >= users[sender].deletionRequestedAt + DELETION_GRACE_PERIOD
         THEN "Grace period expired"
    ELSE "ok"

CancelError(sender) ==
    IF ~users[sender].isRegistered THEN "User not registered"
    ELSE IF ~(users[sender].deletionRequestedAt > 0) THEN "No deletion request pending"
    ELSE "ok"

\* a cancel that writes the account afresh and so loses its counters and its
\* registration time
CancelUsersResetsAccount(sender) ==
    [users EXCEPT ![sender] =
         [xHandle |-> users[sender].xHandle, kudosReceived |-> 0,
          kudosGiven |-> 0, isRegistered |-> TRUE, registeredAt |-> now,
          deletionRequestedAt |-> 0]]

\* users after users[msg.sender].deletionRequestedAt = 0
CancelUsers(sender) == [users EXCEPT ![sender].deletionRequestedAt = 0]

CancelAccountDeletion(sender) ==
    LET e == CancelError(sender) IN
    /\ UNCHANGED <<now, ticks, userRegistered>>
    /\ IF e = "ok"
       THEN /\ users' = CancelUsers(sender)
            /\ UNCHANGED <<handleToAddress, processedTweets, deletedHandles,
                           lastDeletionTime, privateProfiles, kudosHistory>>
       ELSE UNCHANGED storage

\* ---------------------------------------------------------------- deletion

\* executeAccountDeletion with the grace period compared with > instead of >=
ExecuteErrorGraceOffByOne(sender, user) ==
    IF ~users[user].isRegistered THEN "User not registered"
    ELSE IF ~(users[user].deletionRequestedAt > 0) THEN "No deletion request pending"
    ELSE IF ~(now > users[user].deletionRequestedAt + DELETION_GRACE_PERIOD)
         THEN "Grace period not expired"
    ELSE "ok"

\* executeAccountDeletion with the pending request checked before the
\* registration
ExecuteErrorPendingFirst(sender, user) ==
    IF ~(users[user].deletionRequestedAt > 0) THEN "No deletion request pending"
    ELSE IF ~users[user].isRegistered THEN "User not registered"
    ELSE IF ~(now >= users[user].deletionRequestedAt + DELETION_GRACE_PERIOD)
         THEN "Grace period not expired"
    ELSE "ok"

\* executeAccountDeletion without the requires on the request and its age
ExecuteErrorNoRequestNeeded(sender, user) ==
    IF ~users[user].isRegistered THEN "User not registered" ELSE "ok"

\* The first failing require of executeAccountDeletion(_user), or "ok";
\* msg.sender is not looked at.
ExecuteError(sender, user) ==
    IF ~users[user].isRegistered THEN "User not registered"
    ELSE IF ~(users[user].deletionRequestedAt > 0) THEN "No deletion request pending"
    ELSE IF ~(now >= users[user].deletionRequestedAt + DELETION_GRACE_PERIOD)
         THEN "Grace period not expired"
    ELSE "ok"

\* The storage writes both deletion paths make for the account `user`.
RetireHandle(user) == [deletedHandles EXCEPT ![users[user].xHandle] = TRUE]
RecordDeletionTime(user) == [lastDeletionTime EXCEPT ![user] = now]
\* a deletion that leaves the handle bound
KeepHandle(user) == handleToAddress
ClearHandle(user) == [handleToAddress EXCEPT ![users[user].xHandle] = ZeroAddress]
\* a deletion that leaves the request time in the emptied record
ClearUserKeepsRequest(user) ==
    [users EXCEPT ![user] =
         [NoUser EXCEPT !.deletionRequestedAt = users[user].deletionRequestedAt]]
ClearUser(user) == [users EXCEPT ![user] = NoUser]
\* a deletion that forgets delete privateProfiles[_user]
KeepPrivacy(user) == privateProfiles
ClearPrivacy(user) == [privateProfiles EXCEPT ![user] = FALSE]

ExecuteAccountDeletion(sender, user) ==
    LET e == ExecuteError(sender, user) IN
    /\ UNCHANGED <<now, ticks, userRegistered>>
    /\ IF e = "ok"
       THEN /\ deletedHandles' = RetireHandle(user)
            /\ lastDeletionTime' = RecordDeletionTime(user)
            /\ handleToAddress' = ClearHandle(user)
            /\ users' = ClearUser(user)
            /\ privateProfiles' = ClearPrivacy(user)
            /\ UNCHANGED <<processedTweets, kudosHistory>>
       ELSE UNCHANGED storage

\* deleteAccountImmediately guarded by onlyRegistered, which refuses an
\* account pending deletion
DeleteImmediatelyErrorActiveOnly(sender) ==
    IF ~users[sender].isRegistered THEN "User not registered"
    ELSE IF users[sender].deletionRequestedAt # 0 THEN "Account pending deletion"
    ELSE "ok"

DeleteImmediatelyError(sender) ==
    IF ~users[sender].isRegistered THEN "User not registered" ELSE "ok"

\* a deleteAccountImmediately that also erases the records of the history
\* that name the deleted account
DeleteAccountImmediatelyErasesRecords(sender) ==
    LET e == DeleteImmediatelyError(sender)
        Keep(r) == r.from # sender /\ r.to # sender
    IN
    /\ UNCHANGED <<now, ticks, userRegistered>>
    /\ IF e = "ok"
       THEN /\ deletedHandles' = RetireHandle(sender)
            /\ lastDeletionTime' = RecordDeletionTime(sender)
            /\ handleToAddress' = ClearHandle(sender)
            /\ users' = ClearUser(sender)
            /\ privateProfiles' = ClearPrivacy(sender)
            /\ kudosHistory' = SelectSeq(kudosHistory, Keep)
            /\ UNCHANGED processedTweets
       ELSE UNCHANGED storage

DeleteAccountImmediately(sender) ==
    LET e == DeleteImmediatelyError(sender) IN
    /\ UNCHANGED <<now, ticks, userRegistered>>
    /\ IF e = "ok"
       THEN /\ deletedHandles' = RetireHandle(sender)
            /\ lastDeletionTime' = RecordDeletionTime(sender)
            /\ handleToAddress' = ClearHandle(sender)
            /\ users' = ClearUser(sender)
            /\ privateProfiles' = ClearPrivacy(sender)
            /\ UNCHANGED <<processedTweets, kudosHistory>>
       ELSE UNCHANGED storage

\* ------------------------------------------------------------------ privacy

\* setProfilePrivacy without the modifier's check of a pending deletion
SetPrivacyErrorIgnoresPending(sender) ==
    IF ~users[sender].isRegistered THEN "User not registered" ELSE "ok"

\* setProfilePrivacy has no require of its own: the modifier decides.
SetPrivacyError(sender) == OnlyRegisteredError(sender)

SetProfilePrivacy(sender, isPrivate) ==
    LET e == SetPrivacyError(sender) IN
    /\ UNCHANGED <<now, ticks, userRegistered>>
    /\ IF e = "ok"
       THEN /\ privateProfiles' = [privateProfiles EXCEPT ![sender] = isPrivate]
            /\ UNCHANGED <<users, handleToAddress, processedTweets,
                           deletedHandles, lastDeletionTime, kudosHistory>>
       ELSE UNCHANGED storage

\* ---------------------------------------------------------------- giveKudos

\* giveKudos without require(!processedTweets[_tweetUrl])
GiveKudosErrorSkipsProcessed(sender, toHandle, url) ==
    IF OnlyRegisteredError(sender) # "ok" THEN OnlyRegisteredError(sender)
    ELSE IF NotPendingDeletionError(sender) # "ok"
         THEN NotPendingDeletionError(sender)
    ELSE IF url = "" THEN "Tweet URL required"
    ELSE IF handleToAddress[toHandle] = ZeroAddress THEN "Recipient not registered"
    ELSE IF handleToAddress[toHandle] = sender THEN "Cannot give kudos to yourself"
    ELSE IF users[handleToAddress[toHandle]].deletionRequestedAt # 0
         THEN "Recipient pending deletion"
    ELSE "ok"

\* giveKudos without require(toAddress != msg.sender)
GiveKudosErrorSkipsSelf(sender, toHandle, url) ==
    IF OnlyRegisteredError(sender) # "ok" THEN OnlyRegisteredError(sender)
    ELSE IF NotPendingDeletionError(sender) # "ok"
         THEN NotPendingDeletionError(sender)
    ELSE IF url = "" THEN "Tweet URL required"
    ELSE IF processedTweets[url] THEN "Tweet already processed"
    ELSE IF handleToAddress[toHandle] = ZeroAddress THEN "Recipient not registered"
    ELSE IF users[handleToAddress[toHandle]].deletionRequestedAt # 0
         THEN "Recipient pending deletion"
    ELSE "ok"

\* giveKudos with the recipient resolved and compared before the tweet URL is
\* looked at
GiveKudosErrorSelfBeforeUrl(sender, toHandle, url) ==
    IF OnlyRegisteredError(sender) # "ok" THEN OnlyRegisteredError(sender)
    ELSE IF NotPendingDeletionError(sender) # "ok"
         THEN NotPendingDeletionError(sender)
    ELSE IF handleToAddress[toHandle] = ZeroAddress THEN "Recipient not registered"
    ELSE IF handleToAddress[toHandle] = sender THEN "Cannot give kudos to yourself"
    ELSE IF url = "" THEN "Tweet URL required"
    ELSE IF processedTweets[url] THEN "Tweet already processed"
    ELSE IF users[handleToAddress[toHandle]].deletionRequestedAt # 0
         THEN "Recipient pending deletion"
    ELSE "ok"

\* giveKudos without require(users[toAddress].deletionRequestedAt == 0)
GiveKudosErrorSkipsRecipientPending(sender, toHandle, url) ==
    IF OnlyRegisteredError(sender) # "ok" THEN OnlyRegisteredError(sender)
    ELSE IF NotPendingDeletionError(sender) # "ok"
         THEN NotPendingDeletionError(sender)
    ELSE IF url = "" THEN "Tweet URL required"
    ELSE IF processedTweets[url] THEN "Tweet already processed"
    ELSE IF handleToAddress[toHandle] = ZeroAddress THEN "Recipient not registered"
    ELSE IF handleToAddress[toHandle] = sender THEN "Cannot give kudos to yourself"
    ELSE "ok"

\* giveKudos with the recipient resolved before the tweet URL is looked up in
\* processedTweets
GiveKudosErrorRecipientBeforeProcessed(sender, toHandle, url) ==
    IF OnlyRegisteredError(sender) # "ok" THEN OnlyRegisteredError(sender)
    ELSE IF NotPendingDeletionError(sender) # "ok"
         THEN NotPendingDeletionError(sender)
    ELSE IF url = "" THEN "Tweet URL required"
    ELSE IF handleToAddress[toHandle] = ZeroAddress THEN "Recipient not registered"
    ELSE IF processedTweets[url] THEN "Tweet already processed"
    ELSE IF handleToAddress[toHandle] = sender THEN "Cannot give kudos to yourself"
    ELSE IF users[handleToAddress[toHandle]].deletionRequestedAt # 0
         THEN "Recipient pending deletion"
    ELSE "ok"

\* The first failing require of giveKudos (modifiers first), or "ok".
GiveKudosError(sender, toHandle, url) ==
    IF OnlyRegisteredError(sender) # "ok" THEN OnlyRegisteredError(sender)
    ELSE IF NotPendingDeletionError(sender) # "ok"
         THEN NotPendingDeletionError(sender)
    ELSE IF url = "" THEN "Tweet URL required"
    ELSE IF processedTweets[url] THEN "Tweet already processed"
    ELSE IF handleToAddress[toHandle] = ZeroAddress THEN "Recipient not registered"
    ELSE IF handleToAddress[toHandle] = sender THEN "Cannot give kudos to yourself"
    ELSE IF users[handleToAddress[toHandle]].deletionRequestedAt # 0
         THEN "Recipient pending deletion"
    ELSE "ok"

\* a record with the two addresses the wrong way round
KudosTransactionSwapsParties(sender, toHandle, url) ==
    [from |-> handleToAddress[toHandle], to |-> sender,
     fromHandle |-> users[sender].xHandle, toHandle |-> toHandle,
     timestamp |-> now, tweetUrl |-> url]

\* a record that snapshots the recipient's handle for both parties
KudosTransactionCopiesHandle(sender, toHandle, url) ==
    [from |-> sender, to |-> handleToAddress[toHandle],
     fromHandle |-> toHandle, toHandle |-> toHandle,
     timestamp |-> now, tweetUrl |-> url]

KudosTransaction(sender, toHandle, url) ==
    [from |-> sender, to |-> handleToAddress[toHandle],
     fromHandle |-> users[sender].xHandle, toHandle |-> toHandle,
     timestamp |-> now, tweetUrl |-> url]

\* a giveKudos that marks the tweet URL before its checks and returns, instead
\* of reverting, when one of them fails
GiveKudosMarksTweetFirst(sender, toHandle, url) ==
    LET e == GiveKudosError(sender, toHandle, url)
        toAddress == handleToAddress[toHandle]
    IN
    /\ UNCHANGED <<now, ticks, userRegistered>>
    /\ processedTweets' = [processedTweets EXCEPT ![url] = TRUE]
    /\ IF e = "ok"
       THEN /\ users' = [users EXCEPT ![sender].kudosGiven = @ + 1,
                                      ![toAddress].kudosReceived = @ + 1]
            /\ kudosHistory' =
                   Append(kudosHistory, KudosTransaction(sender, toHandle, url))
            /\ UNCHANGED <<handleToAddress, deletedHandles, lastDeletionTime,
                           privateProfiles>>
       ELSE UNCHANGED <<users, handleToAddress, deletedHandles,
                        lastDeletionTime, privateProfiles, kudosHistory>>

GiveKudos(sender, toHandle, url) ==
    LET e == GiveKudosError(sender, toHandle, url)
        toAddress == handleToAddress[toHandle]
    IN
    /\ UNCHANGED <<now, ticks, userRegistered>>
    /\ IF e = "ok"
       THEN /\ users' = [users EXCEPT ![sender].kudosGiven = @ + 1,
                                      ![toAddress].kudosReceived = @ + 1]
            /\ kudosHistory' =
                   Append(kudosHistory, KudosTransaction(sender, toHandle, url))
            /\ processedTweets' = [processedTweets EXCEPT ![url] = TRUE]
            /\ UNCHANGED <<handleToAddress, deletedHandles, lastDeletionTime,
                           privateProfiles>>
       ELSE UNCHANGED storage

\* -------------------------------------------------------------------- views

\* getAccountStatus that reports the time of the request as the time the
\* deletion may be executed
GetAccountStatusRequestTime(user) ==
    LET isPendingDeletion == users[user].deletionRequestedAt > 0 IN
    [isRegistered |-> users[user].isRegistered,
     isPendingDeletion |-> isPendingDeletion,
     deletionTime |->
         IF isPendingDeletion THEN users[user].deletionRequestedAt ELSE 0,
     canReregister |->
         \/ lastDeletionTime[user] = 0
         \/ now >= lastDeletionTime[user] + REREGISTRATION_COOLDOWN]

GetAccountStatus(user) ==
    LET isPendingDeletion == users[user].deletionRequestedAt > 0 IN
    [isRegistered |-> users[user].isRegistered,
     isPendingDeletion |-> isPendingDeletion,
     deletionTime |->
         IF isPendingDeletion
         THEN users[user].deletionRequestedAt + DELETION_GRACE_PERIOD ELSE 0,
     canReregister |->
         \/ lastDeletionTime[user] = 0
         \/ now >= lastDeletionTime[user] + REREGISTRATION_COOLDOWN]

\* The result of a view call: the message of the revert, or "ok" and the value
\* returned.
Reverted(message) == [error |-> message, user |-> NoUser, kudos |-> 0]

\* getUserByHandle that also refuses to show an account pending deletion
GetUserByHandleHidesPending(requester, h) ==
    LET userAddress == handleToAddress[h] IN
    IF userAddress = ZeroAddress THEN Reverted("User not found")
    ELSE IF privateProfiles[userAddress] /\ requester # userAddress
         THEN Reverted("Profile is private")
    ELSE IF users[userAddress].deletionRequestedAt # 0
         THEN Reverted("Account pending deletion")
    ELSE [error |-> "ok", user |-> users[userAddress],
          kudos |-> users[userAddress].kudosReceived]

\* getUserByHandle(_handle) called by `requester`
GetUserByHandle(requester, h) ==
    LET userAddress == handleToAddress[h] IN
    IF userAddress = ZeroAddress THEN Reverted("User not found")
    ELSE IF privateProfiles[userAddress] /\ requester # userAddress
         THEN Reverted("Profile is private")
    ELSE [error |-> "ok", user |-> users[userAddress],
          kudos |-> users[userAddress].kudosReceived]

\* getUserByAddress(_user) called by `requester`
GetUserByAddress(requester, user) ==
    IF ~users[user].isRegistered THEN Reverted("User not registered")
    ELSE IF privateProfiles[user] /\ requester # user
         THEN Reverted("Profile is private")
    ELSE [error |-> "ok", user |-> users[user],
          kudos |-> users[user].kudosReceived]

\* getUserKudos(_handle) called by `requester`, who is not looked at; only the
\* kudos count is returned.
GetUserKudos(requester, h) ==
    LET userAddress == handleToAddress[h] IN
    IF userAddress = ZeroAddress THEN Reverted("User not found")
    ELSE [error |-> "ok", user |-> NoUser,
          kudos |-> users[userAddress].kudosReceived]

\* users(_user), the getter of the public mapping, called by `requester`, who
\* is not looked at; it never reverts.
UsersGetter(requester, user) ==
    [error |-> "ok", user |-> users[user], kudos |-> users[user].kudosReceived]

\* isHandleAvailable(_handle); a mapping reads as zero at a key never written.
IsHandleAvailable(h) ==
    /\ (IF h \in DOMAIN handleToAddress THEN handleToAddress[h] ELSE ZeroAddress)
           = ZeroAddress
    /\ ~(IF h \in DOMAIN deletedHandles THEN deletedHandles[h] ELSE FALSE)
    /\ IsValidHandle(h)

\* ---------------------------------------------------------------- pagination

\* The uint256 arguments of a view: n itself, or 2^256 - 1 - n, for a small n.
Small(n) == [top |-> FALSE, n |-> n]
FromTop(n) == [top |-> TRUE, n |-> n]

\* x >= length, for a length that is small
UintGeq(x, length) == x.top \/ x.n >= length

\* x + y exceeds 2^256 - 1: checked arithmetic (pragma ^0.8.19) then reverts
\* with Panic(0x11).
UintAddOverflows(x, y) ==
    IF x.top /\ y.top THEN TRUE
    ELSE IF x.top THEN y.n > x.n
    ELSE IF y.top THEN x.n > y.n
    ELSE FALSE

\* x + y when it does not overflow
UintAdd(x, y) ==
    IF x.top THEN FromTop(x.n - y.n)
    ELSE IF y.top THEN FromTop(y.n - x.n)
    ELSE Small(x.n + y.n)

\* getKudosHistoryPage(_offset, _limit): the message of the revert, or "ok"
\* and the page.
GetKudosHistoryPage(offset, limit) ==
    LET totalLength == Len(kudosHistory) IN
    IF UintGeq(offset, totalLength) THEN [error |-> "ok", page |-> <<>>]
    ELSE IF UintAddOverflows(offset, limit)
         THEN [error |-> "Panic(0x11)", page |-> <<>>]
    ELSE LET sum == UintAdd(offset, limit)
             endIndex == IF UintGeq(sum, totalLength + 1)
                         THEN totalLength ELSE sum.n
             resultLength == endIndex - offset.n
         IN
         [error |-> "ok",
          page |-> [i \in 1..resultLength |-> kudosHistory[offset.n + i]]]

\* --------------------------------------------------------------- leaderboard

\* getLeaderboard without !privateProfiles[...] in the filter
IncludedIgnoresPrivacy(a) ==
    users[a].isRegistered /\ users[a].deletionRequestedAt = 0

\* the filter of the scan: "only include non-private, non-deleted users"
Included(a) ==
    /\ users[a].isRegistered
    /\ users[a].deletionRequestedAt = 0
    /\ ~privateProfiles[a]

\* the j-loop of the scan: uniqueUsers[j] == user for some j < uniqueCount
Exists(uniqueUsers, user) ==
    \E j \in 1..Len(uniqueUsers) : uniqueUsers[j] = user

\* One round of the scan, for the record at (1-based) index i: both flags are
\* computed before either user is added.
ScanRecord(uniqueUsers, i) ==
    LET fromUser == kudosHistory[i].from
        toUser == kudosHistory[i].to
        fromExists == Exists(uniqueUsers, fromUser)
        toExists == Exists(uniqueUsers, toUser)
        withFrom == IF ~fromExists /\ Included(fromUser)
                    THEN Append(uniqueUsers, fromUser) ELSE uniqueUsers
    IN
    IF ~toExists /\ Included(toUser) THEN Append(withFrom, toUser) ELSE withFrom

\* The scan from record i on, with the unique users found so far.
RECURSIVE ScanHistory(_, _)
ScanHistory(uniqueUsers, i) ==
    IF i > Len(kudosHistory) THEN uniqueUsers
    ELSE ScanHistory(ScanRecord(uniqueUsers, i), i + 1)

\* the comparison of the sort taken as <=, which also swaps equal neighbours
NeedsSwapOnTies(a, b) == users[a].kudosReceived <= users[b].kudosReceived

\* the comparison of the sort: swap when the left neighbour has strictly less
NeedsSwap(a, b) == users[a].kudosReceived < users[b].kudosReceived

\* The inner loop of the sort, from (0-based) j on, in pass i.
RECURSIVE SortInner(_, _, _)
SortInner(uniqueUsers, i, j) ==
    IF ~(j + i + 1 < Len(uniqueUsers)) THEN uniqueUsers
    ELSE IF NeedsSwap(uniqueUsers[j + 1], uniqueUsers[j + 2])
         THEN SortInner([uniqueUsers EXCEPT ![j + 1] = uniqueUsers[j + 2],
                                            ![j + 2] = uniqueUsers[j + 1]],
                        i, j + 1)
    ELSE SortInner(uniqueUsers, i, j + 1)

\* The outer loop of the sort, from (0-based) pass i on.
RECURSIVE SortOuter(_, _)
SortOuter(uniqueUsers, i) ==
    IF ~(i + 1 < Len(uniqueUsers)) THEN uniqueUsers
    ELSE SortOuter(SortInner(uniqueUsers, i, 0), i + 1)

\* getLeaderboard(_limit): the three parallel arrays as one sequence of rows.
GetLeaderboard(limit) ==
    IF Len(kudosHistory) = 0 THEN <<>>
    ELSE LET uniqueUsers == SortOuter(ScanHistory(<<>>, 1), 0)
             uniqueCount == Len(uniqueUsers)
             resultCount == IF limit < uniqueCount THEN limit ELSE uniqueCount
         IN
         [i \in 1..resultCount |->
              [handle |-> users[uniqueUsers[i]].xHandle,
               kudosReceived |-> users[uniqueUsers[i]].kudosReceived,
               address |-> uniqueUsers[i]]]

\* --------------------------------------------------------------------- time

\* A later block: block.timestamp advances, the storage stays.
Tick(step) ==
    /\ now' = now + step
    /\ ticks' = ticks + 1
    /\ UNCHANGED <<storage, userRegistered>>

\* ------------------------------------------------------------ specification

Register ==
    /\ \E a \in Addresses, h \in Handles : RegisterUser(a, h)
    /\ UNCHANGED client
RequestDeletion ==
    /\ \E a \in Addresses : RequestAccountDeletion(a)
    /\ UNCHANGED client
CancelDeletion ==
    /\ \E a \in Addresses : CancelAccountDeletion(a)
    /\ UNCHANGED client
ExecuteDeletion ==
    /\ \E a \in Addresses, u \in Addresses : ExecuteAccountDeletion(a, u)
    /\ UNCHANGED client
DeleteImmediately ==
    /\ \E a \in Addresses : DeleteAccountImmediately(a)
    /\ UNCHANGED client
SetPrivacy ==
    /\ \E a \in Addresses, p \in BOOLEAN : SetProfilePrivacy(a, p)
    /\ UNCHANGED client
Kudos ==
    /\ \E a \in Addresses, h \in KudosHandles, u \in SpecUrls : GiveKudos(a, h, u)
    /\ UNCHANGED client
AdvanceTime ==
    /\ ticks < MaxTicks
    /\ Tick(TimeSteps[(ticks % Len(TimeSteps)) + 1])
    /\ UNCHANGED client

Next ==
    \/ Register
    \/ RequestDeletion
    \/ CancelDeletion
    \/ ExecuteDeletion
    \/ DeleteImmediately
    \/ SetPrivacy
    \/ Kudos
    \/ AdvanceTime

Spec == Init /\ [][Next]_vars

\* The same contract with more tweets, so a longer history, and coarser time:
\* block.timestamp advances by a whole cooldown period at a time.
LedgerKudos ==
    /\ \E a \in Addresses, h \in KudosHandles, u \in LedgerUrls : GiveKudos(a, h, u)
    /\ UNCHANGED client
LedgerAdvanceTime ==
    /\ ticks < LedgerTicks
    /\ Tick(REREGISTRATION_COOLDOWN)
    /\ UNCHANGED client

LedgerNext ==
    \/ Register
    \/ RequestDeletion
    \/ CancelDeletion
    \/ ExecuteDeletion
    \/ DeleteImmediately
    \/ SetPrivacy
    \/ LedgerKudos
    \/ LedgerAdvanceTime

SpecLedger == Init /\ [][LedgerNext]_vars

\* The same contract with a third account, which is what a ranking needs, only
\* well-formed handles, and all calls in one block: no executeAccountDeletion
\* (deleteAccountImmediately has the same effect).
BoardAddresses == {1, 2, 3}
BoardHandles == {HandleAlice, HandleBob, HandleCarol}
BoardUrls == {"t1", "t2"}
Limits == 0..MaxLimit

BoardInit ==
    /\ users = [a \in BoardAddresses |-> NoUser]
    /\ handleToAddress = [h \in Handles |-> ZeroAddress]
    /\ processedTweets = [u \in TweetUrls |-> FALSE]
    /\ deletedHandles = [h \in Handles |-> FALSE]
    /\ lastDeletionTime = [a \in BoardAddresses |-> 0]
    /\ privateProfiles = [a \in BoardAddresses |-> FALSE]
    /\ kudosHistory = <<>>
    /\ now = StartTime
    /\ ticks = 0
    /\ userRegistered = [h \in Handles |-> 0]
    /\ ClientInit

BoardRegister ==
    /\ \E a \in BoardAddresses, h \in BoardHandles : RegisterUser(a, h)
    /\ UNCHANGED client
BoardRequestDeletion ==
    /\ \E a \in BoardAddresses : RequestAccountDeletion(a)
    /\ UNCHANGED client
BoardCancelDeletion ==
    /\ \E a \in BoardAddresses : CancelAccountDeletion(a)
    /\ UNCHANGED client
BoardDeleteImmediately ==
    /\ \E a \in BoardAddresses : DeleteAccountImmediately(a)
    /\ UNCHANGED client
BoardSetPrivacy ==
    /\ \E a \in BoardAddresses, p \in BOOLEAN : SetProfilePrivacy(a, p)
    /\ UNCHANGED client
BoardKudos ==
    /\ \E a \in BoardAddresses, h \in BoardHandles, u \in BoardUrls :
           GiveKudos(a, h, u)
    /\ UNCHANGED client
BoardNext ==
    \/ BoardRegister
    \/ BoardRequestDeletion
    \/ BoardCancelDeletion
    \/ BoardDeleteImmediately
    \/ BoardSetPrivacy
    \/ BoardKudos

SpecBoard == BoardInit /\ [][BoardNext]_vars

\* ------------------------------------------------------ the webhook handler

\* The account of WEBHOOK_PRIVATE_KEY: it signs every transaction the handler
\* sends, and is an address like any other.
WebhookAccount == 1

\* tweet.id_str and tweet.user.screen_name as the strings they are
TweetIds == {"1"}
ScreenName(h) ==
    CASE h = HandleAlice -> "ali"
      [] h = HandleBob -> "bob"
      [] h = HandleCarol -> "c_9"

\* `https://twitter.com/${kudos.giver}/status/${tweet.id_str}`
TweetUrlOf(giver, id) ==
    "https://twitter.com/" \o ScreenName(giver) \o "/status/" \o id

WebhookUrls == {TweetUrlOf(g, i) : g \in BoardHandles, i \in TweetIds}

\* parseKudosFromTweet on a text whose first "@name ++" names mention, or that
\* has none (NoHandle): the recipient, or null.
ParseKudosFromTweet(mention) ==
    IF mention = NoHandle THEN [null |-> TRUE, recipient |-> NoHandle]
    ELSE [null |-> FALSE, recipient |-> mention]

\* The loop of POST takes the next tweet_create_event: a tweet without kudos
\* is passed over, and for one with kudos kudos.giver is the author.
WebhookTweet(screenName, mention, id) ==
    LET kudos == ParseKudosFromTweet(mention) IN
    /\ webhook.pc = "idle"
    /\ IF kudos.null
       THEN UNCHANGED webhook
       ELSE webhook' = [WebhookIdle EXCEPT !.pc = "lookup", !.giver = screenName,
                                           !.recipient = kudos.recipient,
                                           !.id = id]
    /\ UNCHANGED <<storage, now, ticks, userRegistered, form>>

\* readContract handleToAddress(kudos.giver): an unbound giver is reported
\* skipped and the loop continues.
WebhookLookup ==
    LET giverAddress == handleToAddress[webhook.giver] IN
    /\ webhook.pc = "lookup"
    /\ IF giverAddress = ZeroAddress
       THEN webhook' = [webhook EXCEPT !.pc = "idle", !.status = "skipped"]
       ELSE webhook' = [webhook EXCEPT !.pc = "simulate",
                                       !.giverAddress = giverAddress]
    /\ UNCHANGED <<storage, now, ticks, userRegistered, form>>

\* simulateContract giveKudos(kudos.recipient, tweetUrl) from the webhook's
\* account: a revert throws and the tweet is reported failed.
WebhookSimulate ==
    LET tweetUrl == TweetUrlOf(webhook.giver, webhook.id) IN
    /\ webhook.pc = "simulate"
    /\ IF GiveKudosError(WebhookAccount, webhook.recipient, tweetUrl) = "ok"
       THEN webhook' = [webhook EXCEPT !.pc = "write"]
       ELSE webhook' = [webhook EXCEPT !.pc = "idle", !.status = "failed"]
    /\ UNCHANGED <<storage, now, ticks, userRegistered, form>>

\* writeContract and waitForTransactionReceipt: the transaction, signed by
\* the webhook's account, is mined.  One that reverts by then either throws
\* when it is sent (failed) or is mined as reverted, which the handler does
\* not look at (success).  appended is the place of the record it added.
WebhookWrite ==
    LET tweetUrl == TweetUrlOf(webhook.giver, webhook.id) IN
    /\ webhook.pc = "write"
    /\ GiveKudos(WebhookAccount, webhook.recipient, tweetUrl)
    /\ IF GiveKudosError(WebhookAccount, webhook.recipient, tweetUrl) = "ok"
       THEN webhook' = [webhook EXCEPT !.pc = "idle", !.status = "success",
                                       !.appended = Len(kudosHistory) + 1]
       ELSE \E status \in {"failed", "success"} :
                webhook' = [webhook EXCEPT !.pc = "idle", !.status = status]
    /\ UNCHANGED form

WebhookInit ==
    /\ users = [a \in BoardAddresses |-> NoUser]
    /\ handleToAddress = [h \in Handles |-> ZeroAddress]
    /\ processedTweets = [u \in WebhookUrls |-> FALSE]
    /\ deletedHandles = [h \in Handles |-> FALSE]
    /\ lastDeletionTime = [a \in BoardAddresses |-> 0]
    /\ privateProfiles = [a \in BoardAddresses |-> FALSE]
    /\ kudosHistory = <<>>
    /\ now = StartTime
    /\ ticks = 0
    /\ userRegistered = [h \in Handles |-> 0]
    /\ ClientInit

\* The contract with three accounts, one of them the webhook's, that register
\* and delete themselves while the handler works through tweets.
WebhookReceive ==
    \E screenName \in BoardHandles, mention \in BoardHandles \cup {NoHandle},
       id \in TweetIds :
        WebhookTweet(screenName, mention, id)

WebhookNext ==
    \/ BoardRegister
    \/ BoardDeleteImmediately
    \/ WebhookReceive
    \/ WebhookLookup
    \/ WebhookSimulate
    \/ WebhookWrite

SpecWebhook == WebhookInit /\ [][WebhookNext]_vars

\* -------------------------------------------------- the registration form

\* isValidHandle of the validation utilities: 3 to 15 characters of
\* [a-zA-Z0-9_]
isValidHandle(handle) ==
    /\ Len(handle) >= MIN_HANDLE_LENGTH
    /\ Len(handle) <= MAX_HANDLE_LENGTH
    /\ Len(handle) > 0
    /\ IsValidHandle(handle)

\* what is typed into the input: nothing, a handle too short, two valid ones
FormInputs == {HandleEmpty, HandleShort, HandleAlice, HandleBob}
\* the availability checks that may be under way at once
MaxChecks == 2

\* handleAvailable as the form keeps it
FormBoolean(b) == IF b THEN "true" ELSE "false"

\* handleXHandleChange: the input changes to handle; the pending timer is
\* cleared, handleAvailable reset, and for a valid handle a new timer set
\* whose callback holds that handle.  A check already under way goes on.
HandleXHandleChange(handle) ==
    /\ form' = [form EXCEPT !.xHandle = handle,
                            !.handleAvailable = "null",
                            !.resultFor = NoHandle,
                            !.checkingHandle = isValidHandle(handle),
                            !.debounceTimer =
                                IF isValidHandle(handle) THEN handle ELSE NoHandle]
    /\ UNCHANGED <<storage, now, ticks, userRegistered, webhook>>

\* DEBOUNCE_DELAY after the last change the timer fires and its callback
\* calls checkHandleAvailability(handle), which sends readContract.
TimerFires ==
    /\ form.debounceTimer # NoHandle
    /\ Len(form.checks) < MaxChecks
    /\ form' = [form EXCEPT !.debounceTimer = NoHandle,
                            !.checks = Append(@, [handle |-> form.debounceTimer,
                                                  returned |-> FALSE,
                                                  available |-> "false"])]
    /\ UNCHANGED <<storage, now, ticks, userRegistered, webhook>>

\* checkHandleAvailability: readContract isHandleAvailable(handle) is
\* answered from the chain as it then is, or fails, which reads as false.
CheckHandleAvailability(i) ==
    /\ i \in 1..Len(form.checks)
    /\ ~form.checks[i].returned
    /\ \E result \in {FormBoolean(IsHandleAvailable(form.checks[i].handle)),
                       "false"} :
           form' = [form EXCEPT !.checks[i].returned = TRUE,
                                !.checks[i].available = result]
    /\ UNCHANGED <<storage, now, ticks, userRegistered, webhook>>

\* the callback resumes after its await: setHandleAvailable(available), then
\* setCheckingHandle(false)
CheckResumes(i) ==
    /\ i \in 1..Len(form.checks)
    /\ form.checks[i].returned
    /\ form' = [form EXCEPT !.handleAvailable = form.checks[i].available,
                            !.resultFor = form.checks[i].handle,
                            !.checkingHandle = FALSE,
                            !.checks = [j \in 1..(Len(@) - 1) |->
                                           IF j < i THEN @[j] ELSE @[j + 1]]]
    /\ UNCHANGED <<storage, now, ticks, userRegistered, webhook>>

\* The form beside a contract on which two accounts register.
FormChange == \E handle \in FormInputs : HandleXHandleChange(handle)
FormCheck == \E i \in 1..MaxChecks : CheckHandleAvailability(i)
FormResume == \E i \in 1..MaxChecks : CheckResumes(i)

FormNext ==
    \/ Register
    \/ FormChange
    \/ TimerFires
    \/ FormCheck
    \/ FormResume

SpecForm == Init /\ [][FormNext]_vars

\* ------------------------------------------------------------------ claims

\* A handle as the data model has it: 3 to 15 characters of [A-Za-z0-9_].
WellFormedHandle(h) ==
    /\ Len(h) >= MIN_HANDLE_LENGTH
    /\ Len(h) <= MAX_HANDLE_LENGTH
    /\ IsValidHandle(h)

Registered(a) == users[a].isRegistered
Pending(a) == users[a].isRegistered /\ users[a].deletionRequestedAt # 0
Active(a) == users[a].isRegistered /\ users[a].deletionRequestedAt = 0
RetiredHandles == {h \in Handles : deletedHandles[h]}

\* C1: the handle binding is one-to-one in every reachable state: two
\* registered identities never hold the same handle, a registered identity
\* holds exactly one handle, handleToAddress[h] = a exactly when a is registered
\* with handle h, and a registered identity that registers a second handle is
\* refused with "User already registered".
HandleBindingOneToOne ==
    /\ \A a, b \in Addresses :
           (Registered(a) /\ Registered(b) /\ users[a].xHandle = users[b].xHandle)
               => a = b
    /\ \A a \in Addresses :
           Registered(a) =>
               {h \in Handles : handleToAddress[h] = a} = {users[a].xHandle}
    /\ \A h \in Handles :
           /\ handleToAddress[h] \in Addresses \cup {ZeroAddress}
           /\ \A a \in Addresses :
                  handleToAddress[h] = a <=> (Registered(a) /\ users[a].xHandle = h)
    /\ \A a \in Addresses, h \in Handles :
           Registered(a) =>
               /\ RegisterError(a, h) # "ok"
               /\ WellFormedHandle(h) =>
                      RegisterError(a, h) = "User already registered"

\* Both identities are registered, and one of them asks for a second, free
\* handle.
SecondHandleRefused ==
    \E a, b \in Addresses, h \in Handles :
        /\ a # b
        /\ Registered(a)
        /\ Registered(b)
        /\ WellFormedHandle(h)
        /\ handleToAddress[h] = ZeroAddress
        /\ ~deletedHandles[h]
        /\ RegisterError(a, h) = "User already registered"

\* C2: over any sequence of calls a handle is bound by at most one successful
\* registerUser call ever: once one call for a handle has succeeded, every
\* other call for it, by any identity, is refused, so two calls for the same
\* handle never both succeed.
HandleRegisteredAtMostOnce ==
    \A h \in Handles :
        /\ userRegistered[h] <= 1
        /\ userRegistered[h] = 1 <=>
               (handleToAddress[h] # ZeroAddress \/ deletedHandles[h])
        /\ userRegistered[h] = 1 =>
               \A a \in Addresses : RegisterError(a, h) # "ok"

\* One identity has bound the handle, and the other identity, which could
\* register otherwise, asks for the same handle and loses.
SameHandleLoses ==
    \E a, b \in Addresses, h \in Handles :
        /\ a # b
        /\ handleToAddress[h] = a
        /\ userRegistered[h] = 1
        /\ ~Registered(b)
        /\ lastDeletionTime[b] = 0
        /\ RegisterError(b, h) = "Handle already taken"

\* C3: once a handle is retired it stays retired in every later state, it is
\* never bound again, and registerUser for it is refused for every identity,
\* its previous owner after the cooldown included.
RetirementPermanent ==
    /\ [](\A h \in Handles :
              deletedHandles[h] =>
                  /\ handleToAddress[h] = ZeroAddress
                  /\ \A a \in Addresses : RegisterError(a, h) # "ok")
    /\ [][\A h \in Handles : deletedHandles[h] => deletedHandles'[h]]_vars

\* The only identity that ever deleted its account asks for its old handle
\* again after its cooldown, and is refused because the handle is retired.
OwnerRefusedAfterCooldown ==
    \E a \in Addresses, h \in Handles :
        /\ RetiredHandles = {h}
        /\ ~Registered(a)
        /\ lastDeletionTime[a] > 0
        /\ now >= lastDeletionTime[a] + REREGISTRATION_COOLDOWN
        /\ RegisterError(a, h) = "Handle permanently retired"

\* Every precondition of giveKudos but the one on the tweet URL being unused.
OtherKudosPreconditions(a, h, u) ==
    /\ Active(a)
    /\ u # ""
    /\ handleToAddress[h] # ZeroAddress
    /\ handleToAddress[h] # a
    /\ users[handleToAddress[h]].deletionRequestedAt = 0

\* C4: no double-spend on tweet URLs: no two records of the history share a
\* tweet URL, a URL is consumed exactly when a record carries it, a consumed
\* URL stays consumed whatever happens to the accounts, and of the giveKudos
\* calls that meet every other precondition the one with an unused URL
\* succeeds and every one with a consumed URL fails with "Tweet already
\* processed".
NoDoubleSpend ==
    /\ []((\A i, j \in 1..Len(kudosHistory) :
                i # j => kudosHistory[i].tweetUrl # kudosHistory[j].tweetUrl)
           /\ \A u \in TweetUrls :
                 /\ processedTweets[u] <=>
                        \E i \in 1..Len(kudosHistory) : kudosHistory[i].tweetUrl = u
                 /\ \A a \in Addresses, h \in Handles :
                        /\ processedTweets[u] => GiveKudosError(a, h, u) # "ok"
                        /\ OtherKudosPreconditions(a, h, u) =>
                               GiveKudosError(a, h, u) =
                                   IF processedTweets[u]
                                   THEN "Tweet already processed" ELSE "ok")
    /\ [][\A u \in TweetUrls : processedTweets[u] => processedTweets'[u]]_vars

\* The sender of the first kudos deleted its account and registered again
\* under another handle; its next giveKudos, fine in every other respect, uses
\* the URL of the first one and is refused as a duplicate.
DuplicateAfterReregistration ==
    \E a \in Addresses, h \in Handles, u \in TweetUrls :
        /\ Len(kudosHistory) >= 1
        /\ kudosHistory[1].tweetUrl = u
        /\ kudosHistory[1].from = a
        /\ users[a].xHandle # kudosHistory[1].fromHandle
        /\ lastDeletionTime[a] > 0
        /\ OtherKudosPreconditions(a, h, u)
        /\ GiveKudosError(a, h, u) = "Tweet already processed"

\* C5: no self-kudos is ever recorded: every record of the history has a
\* sender different from its recipient, and a giveKudos call whose handle
\* resolves to the caller never succeeds (so it changes no counter).
NoSelfKudos ==
    /\ \A i \in 1..Len(kudosHistory) : kudosHistory[i].from # kudosHistory[i].to
    /\ \A a \in Addresses, h \in Handles, u \in TweetUrls :
           handleToAddress[h] = a => GiveKudosError(a, h, u) # "ok"

\* After a first kudos has gone through, its sender names its own handle with
\* an unused tweet URL and is refused.
SelfKudosRefused ==
    \E a \in Addresses, u \in TweetUrls :
        /\ Len(kudosHistory) >= 1
        /\ kudosHistory[1].from = a
        /\ Active(a)
        /\ users[a].kudosGiven = 1
        /\ u # ""
        /\ ~processedTweets[u]
        /\ GiveKudosError(a, users[a].xHandle, u) = "Cannot give kudos to yourself"

\* C6 as stated: giveKudos(id, handleOf(id), ref) fails with "Cannot give kudos
\* to yourself" whatever the state of id's account and whatever the tweet URL.
SelfKudosAlwaysSelfKudosError ==
    \A a \in Addresses, u \in TweetUrls :
        Registered(a) =>
            GiveKudosError(a, users[a].xHandle, u) = "Cannot give kudos to yourself"

\* C6 as amended: giveKudos(id, handleOf(id), ref) never succeeds; it fails with
\* "Cannot give kudos to yourself" exactly when id is registered, not pending
\* deletion, and ref is non-empty and unused; otherwise it fails with the error
\* of the earlier check: "User not registered", "Account pending deletion",
\* "Tweet URL required" or "Tweet already processed".
SelfKudosRefusedInOrder ==
    \A a \in Addresses, u \in TweetUrls :
        /\ Registered(a) =>
               GiveKudosError(a, users[a].xHandle, u) =
                   IF Pending(a) THEN "Account pending deletion"
                   ELSE IF u = "" THEN "Tweet URL required"
                   ELSE IF processedTweets[u] THEN "Tweet already processed"
                   ELSE "Cannot give kudos to yourself"
        /\ ~Registered(a) =>
               \A h \in Handles : GiveKudosError(a, h, u) = "User not registered"

\* One account is pending deletion and the other, active, names its own
\* handle with a tweet URL that is already consumed.
SelfKudosOtherErrors ==
    \E a, b \in Addresses, u \in TweetUrls :
        /\ Pending(a)
        /\ GiveKudosError(a, users[a].xHandle, u) = "Account pending deletion"
        /\ Active(b)
        /\ processedTweets[u]
        /\ GiveKudosError(b, users[b].xHandle, u) = "Tweet already processed"

\* A step that deletes the account of u, by either deletion path.
Deleted(u) == Registered(u) /\ ~Registered(u)'

Unbound(h) == handleToAddress[h] = ZeroAddress /\ ~deletedHandles[h]

\* C7 as stated: an identity that deleted its account at time T is refused
\* with "Reregistration cooldown period active" for every handle before
\* T + 30 days, and registers a well-formed, unbound, non-retired handle at
\* every time from T + 30 days on.
CooldownErrorForEveryHandle ==
    \A a \in Addresses, h \in Handles :
        (~Registered(a) /\ lastDeletionTime[a] > 0 /\ WellFormedHandle(h)) =>
            IF now < lastDeletionTime[a] + REREGISTRATION_COOLDOWN
            THEN RegisterError(a, h) = "Reregistration cooldown period active"
            ELSE Unbound(h) => RegisterError(a, h) = "ok"

\* C7 as amended: a deletion at time T records T; before T + 30 days every
\* registerUser call of that identity fails, with "Reregistration cooldown
\* period active" when the handle is well-formed, unbound and not retired (a
\* malformed, bound or retired handle is refused with its own error first);
\* from T + 30 days on its call with a well-formed, unbound, non-retired
\* handle succeeds.
CooldownEnforced ==
    /\ [](\A a \in Addresses, h \in Handles :
              (~Registered(a) /\ lastDeletionTime[a] > 0) =>
                  IF now < lastDeletionTime[a] + REREGISTRATION_COOLDOWN
                  THEN /\ RegisterError(a, h) # "ok"
                       /\ (WellFormedHandle(h) /\ Unbound(h)) =>
                              RegisterError(a, h) =
                                  "Reregistration cooldown period active"
                  ELSE (WellFormedHandle(h) /\ Unbound(h)) =>
                           RegisterError(a, h) = "ok")
    /\ [][\A a \in Addresses :
               lastDeletionTime'[a] =
                   IF Deleted(a) THEN now ELSE lastDeletionTime[a]]_vars

\* At one instant one identity is a second short of the end of its cooldown
\* and is refused, and the other is exactly at the end of its cooldown and
\* may register the same free handle.
CooldownBoundary ==
    \E a, b \in Addresses, h \in Handles :
        /\ ~Registered(a)
        /\ now = lastDeletionTime[a] + REREGISTRATION_COOLDOWN - 1
        /\ RegisterError(a, h) = "Reregistration cooldown period active"
        /\ ~Registered(b)
        /\ lastDeletionTime[b] > 0
        /\ now = lastDeletionTime[b] + REREGISTRATION_COOLDOWN
        /\ RegisterError(b, h) = "ok"

\* C8: requestAccountDeletion at time R records R, and R stays while the
\* request stands; executeAccountDeletion of a pending account by any caller
\* fails with "Grace period not expired" at every time before R + 7 days and
\* succeeds at every time from R + 7 days on; a pending account stays as it
\* is unless its request is cancelled or it is deleted; once the account is
\* deleted executeAccountDeletion does not succeed again.
GracePeriodEnforced ==
    /\ [](\A s, u \in Addresses :
              /\ Pending(u) =>
                     ExecuteError(s, u) =
                         IF now < users[u].deletionRequestedAt
                                      + DELETION_GRACE_PERIOD
                         THEN "Grace period not expired" ELSE "ok"
              /\ ~Registered(u) => ExecuteError(s, u) # "ok")
    /\ [][\A u \in Addresses :
               /\ (~Pending(u) /\ Pending(u)') =>
                      users'[u].deletionRequestedAt = now
               /\ (Pending(u) /\ users'[u] # users[u]) =>
                      \/ Deleted(u)
                      \/ users'[u] = [users[u] EXCEPT !.deletionRequestedAt = 0]]_vars

\* At one instant the request of one account is exactly 7 days old, so the
\* other identity may execute it, and the request of the other account is
\* younger, so its execution is refused.
GraceBoundary ==
    \E a, b \in Addresses :
        /\ a # b
        /\ Pending(a)
        /\ now = users[a].deletionRequestedAt + DELETION_GRACE_PERIOD
        /\ ExecuteError(b, a) = "ok"
        /\ Pending(b)
        /\ now < users[b].deletionRequestedAt + DELETION_GRACE_PERIOD
        /\ ExecuteError(a, b) = "Grace period not expired"

\* C9 as stated: after executeAccountDeletion(u) has succeeded, a second call
\* for u fails with "No deletion request pending".
SecondExecuteNoPendingRequest ==
    [][\A s, u \in Addresses :
           (ExecuteError(s, u) = "ok" /\ ExecuteAccountDeletion(s, u)) =>
               \A t \in Addresses :
                   (ExecuteError(t, u))' = "No deletion request pending"]_vars

\* C9 as amended: after executeAccountDeletion(u) has succeeded the account is
\* gone, and as long as u is not registered every executeAccountDeletion(u),
\* by any caller, fails with "User not registered" and changes no state.
SecondExecuteNotRegistered ==
    /\ [](\A s, u \in Addresses :
              ~Registered(u) => ExecuteError(s, u) = "User not registered")
    /\ [][\A s, u \in Addresses :
               /\ (ExecuteError(s, u) = "ok" /\ ExecuteAccountDeletion(s, u)) =>
                      ~Registered(u)'
               /\ (~Registered(u) /\ ExecuteAccountDeletion(s, u)) =>
                      UNCHANGED vars]_vars

\* An account that existed for a whole grace period has just been deleted,
\* and a further executeAccountDeletion for it meets "User not registered".
ExecuteAfterDeletion ==
    \E s, u \in Addresses :
        /\ ~Registered(u)
        /\ lastDeletionTime[u] = now
        /\ now >= StartTime + DELETION_GRACE_PERIOD
        /\ ExecuteError(s, u) = "User not registered"

\* C10: a successful executeAccountDeletion or deleteAccountImmediately for u
\* at time t retires u's handle, records lastDeletionTime[u] = t, removes the
\* account (getAccountStatus(u).isRegistered is false), clears u's privacy
\* flag and unbinds the handle, and touches nothing else; from then on no
\* kudos to a retired handle succeeds, and a giveKudos that passes the checks
\* on its sender and tweet URL fails with "Recipient not registered".
DeletionEffect ==
    /\ [](\A h \in Handles, s \in Addresses, url \in TweetUrls :
              deletedHandles[h] =>
                  /\ GiveKudosError(s, h, url) # "ok"
                  /\ (Active(s) /\ url # "" /\ ~processedTweets[url]) =>
                         GiveKudosError(s, h, url) = "Recipient not registered")
    /\ [][\A u \in Addresses :
              /\ \A s \in Addresses :
                     (ExecuteError(s, u) = "ok" /\ ExecuteAccountDeletion(s, u))
                         => Deleted(u)
              /\ (DeleteImmediatelyError(u) = "ok" /\ DeleteAccountImmediately(u))
                     => Deleted(u)
              /\ Deleted(u) =>
                     /\ deletedHandles' =
                            [deletedHandles EXCEPT ![users[u].xHandle] = TRUE]
                     /\ lastDeletionTime' = [lastDeletionTime EXCEPT ![u] = now]
                     /\ users' = [users EXCEPT ![u] = NoUser]
                     /\ ~(GetAccountStatus(u))'.isRegistered
                     /\ ~(GetAccountStatus(u))'.isPendingDeletion
                     /\ privateProfiles' = [privateProfiles EXCEPT ![u] = FALSE]
                     /\ handleToAddress' =
                            [handleToAddress EXCEPT ![users[u].xHandle] = ZeroAddress]
                     /\ UNCHANGED <<processedTweets, kudosHistory>>]_vars

\* An account that had received kudos has just been deleted, and the active
\* sender of that kudos sends to the old handle again with an unused tweet URL.
KudosToDeletedHandle ==
    \E s, u \in Addresses, url \in TweetUrls :
        /\ Len(kudosHistory) >= 1
        /\ kudosHistory[1].to = u
        /\ kudosHistory[1].from = s
        /\ ~Registered(u)
        /\ lastDeletionTime[u] = now
        /\ deletedHandles[kudosHistory[1].toHandle]
        /\ Active(s)
        /\ url # ""
        /\ ~processedTweets[url]
        /\ GiveKudosError(s, kudosHistory[1].toHandle, url) =
               "Recipient not registered"

\* C11: deleteAccountImmediately is open to every registered identity, active
\* or pending deletion, and does in one step what executeAccountDeletion does
\* to a pending account: where a request may be executed, the two calls at
\* that instant lead to the same state, and from any state the immediate
\* deletion retires the same handle, records the same deletion time, removes
\* the same account, privacy flag and binding and leaves the history and the
\* consumed tweet URLs alone, whatever the request time was.
DeleteImmediatelyIsRequestThenExecute ==
    /\ [](\A u \in Addresses :
              DeleteImmediatelyError(u) =
                  IF Registered(u) THEN "ok" ELSE "User not registered")
    /\ [][\A u \in Addresses :
               /\ \A s \in Addresses :
                      ExecuteError(s, u) = "ok" =>
                          (ExecuteAccountDeletion(s, u)
                               <=> DeleteAccountImmediately(u))
               /\ (Registered(u) /\ DeleteAccountImmediately(u)) =>
                      /\ deletedHandles' =
                             [deletedHandles EXCEPT ![users[u].xHandle] = TRUE]
                      /\ lastDeletionTime' = [lastDeletionTime EXCEPT ![u] = now]
                      /\ users' = [users EXCEPT ![u] = NoUser]
                      /\ privateProfiles' = [privateProfiles EXCEPT ![u] = FALSE]
                      /\ handleToAddress' =
                             [handleToAddress EXCEPT ![users[u].xHandle] = ZeroAddress]
                      /\ UNCHANGED <<processedTweets, kudosHistory>>]_vars

\* One account has just been deleted before any request could have been 7
\* days old, so by deleteAccountImmediately, and left nothing behind but its
\* retired handle and deletion time.
ImmediateDeletionDone ==
    \E a \in Addresses :
        /\ ~Registered(a)
        /\ lastDeletionTime[a] = now
        /\ now < StartTime + DELETION_GRACE_PERIOD
        /\ ~privateProfiles[a]
        /\ Cardinality(RetiredHandles) = 1
        /\ \A h \in Handles : handleToAddress[h] # a

\* The state of the account that holds, held or may come to hold handle h.
AccountState(h) ==
    IF deletedHandles[h] THEN "RETIRED"
    ELSE IF handleToAddress[h] = ZeroAddress THEN "UNREGISTERED"
    ELSE IF users[handleToAddress[h]].deletionRequestedAt # 0
         THEN "PENDING_DELETION"
    ELSE "ACTIVE"

AccountTransitions ==
    {<<"UNREGISTERED", "ACTIVE">>, <<"ACTIVE", "PENDING_DELETION">>,
     <<"PENDING_DELETION", "ACTIVE">>, <<"PENDING_DELETION", "RETIRED">>,
     <<"ACTIVE", "RETIRED">>}

\* C12: an account changes state only along UNREGISTERED -> ACTIVE (by
\* registerUser), ACTIVE -> PENDING_DELETION (by requestAccountDeletion, which
\* records the time), PENDING_DELETION -> ACTIVE (by cancelAccountDeletion),
\* PENDING_DELETION -> RETIRED (by executeAccountDeletion after the grace
\* period, or deleteAccountImmediately) and ACTIVE -> RETIRED (by
\* deleteAccountImmediately); while an account stays pending its request time
\* stays, and requestAccountDeletion on a pending account fails.
AccountStateMachine ==
    /\ [](\A a \in Addresses :
              /\ Pending(a) => RequestError(a) # "ok"
              /\ users[a].deletionRequestedAt # 0 => Registered(a))
    /\ [][UNCHANGED vars \/ \A h \in Handles :
               LET o == handleToAddress[h]
                   s == AccountState(h)
                   t == (AccountState(h))'
               IN
               /\ s # t => <<s, t>> \in AccountTransitions
               /\ (s = "UNREGISTERED" /\ t = "ACTIVE") =>
                      RegisterUser(handleToAddress'[h], h)
               /\ (s = "ACTIVE" /\ t = "PENDING_DELETION") =>
                      /\ RequestAccountDeletion(o)
                      /\ users'[o].deletionRequestedAt = now
               /\ (s = "PENDING_DELETION" /\ t = "ACTIVE") =>
                      CancelAccountDeletion(o)
               /\ (s = "PENDING_DELETION" /\ t = "RETIRED") =>
                      \/ DeleteAccountImmediately(o)
                      \/ /\ now >= users[o].deletionRequestedAt
                                       + DELETION_GRACE_PERIOD
                         /\ \E c \in Addresses : ExecuteAccountDeletion(c, o)
               /\ (s = "ACTIVE" /\ t = "RETIRED") => DeleteAccountImmediately(o)
               /\ (s = "PENDING_DELETION" /\ t = "PENDING_DELETION") =>
                      /\ handleToAddress'[h] = o
                      /\ users'[o].deletionRequestedAt =
                             users[o].deletionRequestedAt]_vars

\* A request stands since an earlier block and asking again is refused,
\* while the account of the other identity has been retired.
RequestStandsOverTime ==
    \E a, b \in Addresses :
        /\ Pending(a)
        /\ users[a].deletionRequestedAt < now
        /\ RequestError(a) = "Account pending deletion"
        /\ AccountState(users[a].xHandle) = "PENDING_DELETION"
        /\ ~Registered(b)
        /\ lastDeletionTime[b] > 0

CancelRoundTrip ==
    /\ [](\A a \in Addresses :
              CancelError(a) =
                  IF ~Registered(a) THEN "User not registered"
                  ELSE IF ~Pending(a) THEN "No deletion request pending"
                  ELSE "ok")
    /\ [][\A a \in Addresses :
               /\ (~Pending(a) /\ CancelAccountDeletion(a)) => UNCHANGED vars
               /\ (RequestError(a) = "ok" /\ RequestAccountDeletion(a)) =>
                      /\ (CancelError(a))' = "ok"
                      /\ (CancelUsers(a))' = users
                      /\ UNCHANGED <<handleToAddress, processedTweets,
                                     deletedHandles, lastDeletionTime,
                                     privateProfiles, kudosHistory>>
               /\ (CancelError(a) = "ok" /\ CancelAccountDeletion(a)) =>
                      /\ users' = [users EXCEPT ![a].deletionRequestedAt = 0]
                      /\ UNCHANGED <<handleToAddress, processedTweets,
                                     deletedHandles, lastDeletionTime,
                                     privateProfiles, kudosHistory>>
               /\ (Pending(a) /\ Pending(a)') =>
                      /\ users'[a] = users[a]
                      /\ privateProfiles'[a] = privateProfiles[a]
                      /\ handleToAddress'[users[a].xHandle] = a]_vars

\* A private account with kudos on its counters asked for its deletion some
\* time after it registered, time has passed since, and it may cancel.
CancelAfterRequest ==
    \E a \in Addresses :
        /\ Pending(a)
        /\ users[a].kudosReceived + users[a].kudosGiven > 0
        /\ privateProfiles[a]
        /\ users[a].registeredAt < users[a].deletionRequestedAt
        /\ users[a].deletionRequestedAt < now
        /\ CancelError(a) = "ok"

\* C15: a successful giveKudos(toHandle, url) by `a` at time t adds 1 to a's
\* kudosGiven and 1 to the recipient's kudosReceived, appends the one record
\* {a, recipient, a's handle, toHandle, t, url} to the history, marks url
\* processed, and changes nothing else; and the history grows in no other way.
GiveKudosEffect ==
    [][UNCHANGED vars \/
       /\ \A a \in Addresses, h \in Handles, u \in TweetUrls :
              (GiveKudosError(a, h, u) = "ok" /\ GiveKudos(a, h, u)) =>
                  kudosHistory' =
                      Append(kudosHistory,
                             [from |-> a, to |-> handleToAddress[h],
                              fromHandle |-> users[a].xHandle, toHandle |-> h,
                              timestamp |-> now, tweetUrl |-> u])
       /\ kudosHistory' # kudosHistory =>
              LET r == kudosHistory'[Len(kudosHistory')] IN
              /\ kudosHistory' = Append(kudosHistory, r)
              /\ r.from # r.to
              /\ GiveKudosError(r.from, r.toHandle, r.tweetUrl) = "ok"
              /\ r.fromHandle = users[r.from].xHandle
              /\ handleToAddress[r.toHandle] = r.to
              /\ r.timestamp = now
              /\ users' =
                     [users EXCEPT
                          ![r.from] = [users[r.from] EXCEPT !.kudosGiven = @ + 1],
                          ![r.to] = [users[r.to] EXCEPT !.kudosReceived = @ + 1]]
              /\ ~processedTweets[r.tweetUrl]
              /\ processedTweets' = [processedTweets EXCEPT ![r.tweetUrl] = TRUE]
              /\ UNCHANGED <<handleToAddress, deletedHandles, lastDeletionTime,
                             privateProfiles, now>>
      ]_vars

\* Two kudos went through: the sender of the second had received the first,
\* and each of the two accounts has given one and received one.
KudosBothWays ==
    \E a, b \in Addresses :
        /\ Len(kudosHistory) = 2
        /\ kudosHistory[1].from = b /\ kudosHistory[1].to = a
        /\ kudosHistory[2].from = a /\ kudosHistory[2].to = b
        /\ kudosHistory[2].fromHandle # kudosHistory[2].toHandle
        /\ users[a].kudosGiven = 1 /\ users[a].kudosReceived = 1
        /\ users[b].kudosGiven = 1 /\ users[b].kudosReceived = 1
        /\ processedTweets[kudosHistory[2].tweetUrl]

\* C16: giveKudos reports the first violated precondition in this order: the
\* sender is not registered; the sender is pending deletion; the tweet URL
\* is empty; the tweet URL is already processed; the handle resolves to no
\* registered identity; the handle resolves to the sender; the recipient is
\* pending deletion.  When several fail at once the earliest is reported.
GiveKudosErrorOrder ==
    \A a \in Addresses, h \in Handles, u \in TweetUrls :
        LET e == GiveKudosError(a, h, u)
            to == handleToAddress[h]
        IN
        /\ ~Registered(a) => e = "User not registered"
        /\ Pending(a) => e = "Account pending deletion"
        /\ (Active(a) /\ u = "") => e = "Tweet URL required"
        /\ (Active(a) /\ u # "" /\ processedTweets[u]) =>
               e = "Tweet already processed"
        /\ (Active(a) /\ u # "" /\ ~processedTweets[u]) =>
               /\ to = ZeroAddress => e = "Recipient not registered"
               /\ to = a => e = "Cannot give kudos to yourself"
               /\ (to \in Addresses \ {a} /\ Pending(to)) =>
                      e = "Recipient pending deletion"
               /\ (to \in Addresses \ {a} /\ Active(to)) => e = "ok"

\* Several preconditions fail at once: a sender pending deletion names a
\* handle bound to nobody with a processed tweet URL, and an active sender
\* does the same.
SeveralPreconditionsFail ==
    \E a, b \in Addresses, h \in Handles, u \in TweetUrls :
        /\ Pending(a)
        /\ Active(b)
        /\ processedTweets[u]
        /\ handleToAddress[h] = ZeroAddress
        /\ GiveKudosError(a, h, u) = "Account pending deletion"
        /\ GiveKudosError(b, h, u) = "Tweet already processed"

\* C17: a rejected registerUser, requestAccountDeletion,
\* cancelAccountDeletion, executeAccountDeletion, deleteAccountImmediately,
\* setProfilePrivacy or giveKudos leaves the whole state as it was before the
\* call: no step that changes the state is a step of a rejected call.
NoPartialMutation ==
    [][\/ UNCHANGED vars
       \/ \A a \in Addresses :
              /\ ~(RequestError(a) # "ok" /\ RequestAccountDeletion(a))
              /\ ~(CancelError(a) # "ok" /\ CancelAccountDeletion(a))
              /\ ~(DeleteImmediatelyError(a) # "ok" /\ DeleteAccountImmediately(a))
              /\ \A h \in Handles :
                     ~(RegisterError(a, h) # "ok" /\ RegisterUser(a, h))
              /\ \A u \in Addresses :
                     ~(ExecuteError(a, u) # "ok" /\ ExecuteAccountDeletion(a, u))
              /\ \A p \in BOOLEAN :
                     ~(SetPrivacyError(a) # "ok" /\ SetProfilePrivacy(a, p))
              /\ \A h \in Handles, u \in TweetUrls :
                     ~(GiveKudosError(a, h, u) # "ok" /\ GiveKudos(a, h, u))
      ]_vars

\* A state in which a call of each of the seven functions is rejected.
EveryCallRejected ==
    \E a, b \in Addresses, u \in TweetUrls :
        /\ a # b
        /\ Pending(a)
        /\ ~Registered(b)
        /\ lastDeletionTime[b] > 0
        /\ processedTweets[u]
        /\ RegisterError(b, HandleCarol) = "Reregistration cooldown period active"
        /\ RequestError(a) # "ok"
        /\ CancelError(b) # "ok"
        /\ ExecuteError(b, a) = "Grace period not expired"
        /\ DeleteImmediatelyError(b) # "ok"
        /\ SetPrivacyError(a) # "ok"
        /\ GiveKudosError(a, users[a].xHandle, u) # "ok"

\* The identities of the specification at hand.
Identities == DOMAIN users

\* the rows of getLeaderboard(limit), as a set
LeaderboardRows(limit) ==
    {GetLeaderboard(limit)[i] : i \in 1..Len(GetLeaderboard(limit))}

InLedger(a) ==
    \E i \in 1..Len(kudosHistory) :
        kudosHistory[i].from = a \/ kudosHistory[i].to = a

\* C18: in every reachable state and for every limit, getLeaderboard has no
\* row for an identity whose profile is private, whatever its kudosReceived,
\* none for an identity pending deletion and none for an unregistered
\* (deleted) identity.
LeaderboardFiltering ==
    \A limit \in Limits :
        \A r \in LeaderboardRows(limit) :
            /\ r.address \in Identities
            /\ ~privateProfiles[r.address]
            /\ ~Pending(r.address)
            /\ Registered(r.address)

\* Of the three identities in the history one is private with kudos received,
\* one is pending deletion, and the leaderboard is the third alone.
OnlyThirdOnLeaderboard ==
    \E a, b, c \in Identities :
        /\ InLedger(a) /\ InLedger(b) /\ InLedger(c)
        /\ Registered(a)
        /\ privateProfiles[a]
        /\ users[a].kudosReceived > 0
        /\ Pending(b)
        /\ Len(GetLeaderboard(MaxLimit)) = 1
        /\ GetLeaderboard(MaxLimit)[1].address = c

\* The reference ranking: the identities of the ledger that are registered,
\* not pending deletion and not private, by kudosReceived descending and,
\* among equals, by their first appearance in the ledger (the sender of a
\* record before its recipient).
Ranked == {a \in Identities : InLedger(a) /\ Active(a) /\ ~privateProfiles[a]}

FirstSeen(a) ==
    LET seen == {2 * i - 1 : i \in {k \in 1..Len(kudosHistory) :
                                       kudosHistory[k].from = a}}
                \cup {2 * i : i \in {k \in 1..Len(kudosHistory) :
                                        kudosHistory[k].to = a}}
    IN CHOOSE n \in seen : \A m \in seen : n <= m

RankedBefore(a, b) ==
    \/ users[a].kudosReceived > users[b].kudosReceived
    \/ /\ users[a].kudosReceived = users[b].kudosReceived
       /\ FirstSeen(a) < FirstSeen(b)

ReferenceRanking ==
    [i \in 1..Cardinality(Ranked) |->
         CHOOSE a \in Ranked :
             Cardinality({b \in Ranked : RankedBefore(b, a)}) = i - 1]

ReferenceRow(a) ==
    [handle |-> users[a].xHandle, kudosReceived |-> users[a].kudosReceived,
     address |-> a]

\* C19: getLeaderboard(limit) is the first min(limit, n) rows of the reference
\* ranking of the n ranked identities, each once, with its current handle and
\* kudosReceived; it is empty when the history is empty or limit is 0.
LeaderboardIsReferenceRanking ==
    \A limit \in Limits :
        LET n == Cardinality(Ranked)
            count == IF limit < n THEN limit ELSE n
        IN
        /\ GetLeaderboard(limit) = [i \in 1..count |-> ReferenceRow(ReferenceRanking[i])]
        /\ Len(GetLeaderboard(limit)) = count
        /\ (limit = 0 \/ Len(kudosHistory) = 0) => GetLeaderboard(limit) = <<>>

\* All three identities are ranked: the two that received a kudos lead, in the
\* order in which the ledger shows them, the sender of the first record comes
\* last, and a limit of 2 cuts the third row off.
ThreeRankedWithTie ==
    /\ Len(kudosHistory) = 2
    /\ Len(GetLeaderboard(MaxLimit)) = 3
    /\ GetLeaderboard(MaxLimit)[1].kudosReceived = 1
    /\ GetLeaderboard(MaxLimit)[2].kudosReceived = 1
    /\ GetLeaderboard(MaxLimit)[1].address = kudosHistory[1].to
    /\ GetLeaderboard(MaxLimit)[2].address = kudosHistory[2].to
    /\ GetLeaderboard(MaxLimit)[3].address = kudosHistory[1].from
    /\ Len(GetLeaderboard(2)) = 2

\* C20: for every identity t with a private profile and every requester r
\* other than t, each read that exposes t's handle or counters, getUserByHandle,
\* getUserByAddress, getUserKudos and the users getter, reverts with "Profile
\* is private", and t itself reads its own profile.
PrivacyGate ==
    \A t \in Identities :
        (Registered(t) /\ privateProfiles[t]) =>
            /\ \A r \in Identities \ {t} :
                   /\ GetUserByHandle(r, users[t].xHandle).error = "Profile is private"
                   /\ GetUserByAddress(r, t).error = "Profile is private"
                   /\ GetUserKudos(r, users[t].xHandle).error = "Profile is private"
                   /\ UsersGetter(r, t).error = "Profile is private"
            /\ GetUserByHandle(t, users[t].xHandle).user = users[t]
            /\ GetUserByAddress(t, t).user = users[t]

\* C21: the history is append-only: over every step it keeps its records, in
\* place and unchanged, and at most grows at the end, so the history of an
\* earlier state is a prefix of that of every later state, whatever is
\* deleted or registered again in between.
LedgerAppendOnly ==
    [][/\ Len(kudosHistory') >= Len(kudosHistory)
       /\ \A i \in 1..Len(kudosHistory) : kudosHistory'[i] = kudosHistory[i]]_vars

\* The first record still names its sender, whose account is deleted, and
\* its recipient under the handle of then, though the recipient has deleted
\* that account and registered again under another handle.
RecordOutlivesAccounts ==
    /\ Len(kudosHistory) >= 1
    /\ ~Registered(kudosHistory[1].from)
    /\ lastDeletionTime[kudosHistory[1].from] > 0
    /\ deletedHandles[kudosHistory[1].fromHandle]
    /\ Registered(kudosHistory[1].to)
    /\ users[kudosHistory[1].to].xHandle # kudosHistory[1].toHandle

\* the offsets and limits getKudosHistoryPage is called with
PageArgs == {Small(n) : n \in 0..MaxLimit} \cup {FromTop(n) : n \in 0..1}

\* C22: getKudosHistoryPage(offset, limit) never fails: for every offset and
\* limit, the largest uint256 included, it returns the records at positions
\* offset .. offset + min(limit, length - offset) - 1 when offset < length,
\* and the empty page when offset >= length.
HistoryPageNeverFails ==
    \A offset \in PageArgs, limit \in PageArgs :
        LET length == Len(kudosHistory)
            count == IF limit.top \/ limit.n > length - offset.n
                     THEN length - offset.n ELSE limit.n
        IN
        /\ GetKudosHistoryPage(offset, limit).error = "ok"
        /\ GetKudosHistoryPage(offset, limit).page =
               IF UintGeq(offset, length) THEN <<>>
               ELSE [i \in 1..count |-> kudosHistory[offset.n + i]]

\* C23: isHandleAvailable(h) is true iff h is unbound, not retired and valid
\* as registerUser has it (3 to 15 characters of [A-Za-z0-9_]); so for an
\* identity that is not registered and not in its cooldown registerUser(h)
\* succeeds exactly when isHandleAvailable(h), for every h, the short, the
\* long and the empty one included.
AvailableIffRegistrable ==
    \A h \in Handles \cup {HandleEmpty} :
        /\ IsHandleAvailable(h) <=>
               /\ WellFormedHandle(h)
               /\ handleToAddress[h] = ZeroAddress
               /\ ~deletedHandles[h]
        /\ \A a \in Addresses :
               (/\ ~Registered(a)
                /\ (lastDeletionTime[a] = 0
                       \/ now >= lastDeletionTime[a] + REREGISTRATION_COOLDOWN))
                   => (RegisterError(a, h) = "ok" <=> IsHandleAvailable(h))

\* C24 as stated: registerUser with a handle bound to some identity fails with
\* "Handle already taken", and with a retired handle with "Handle permanently
\* retired", whatever the state of the caller.
BoundOrRetiredOwnError ==
    \A a \in Addresses, h \in Handles :
        /\ handleToAddress[h] # ZeroAddress =>
               RegisterError(a, h) = "Handle already taken"
        /\ deletedHandles[h] =>
               RegisterError(a, h) = "Handle permanently retired"

\* C24 as amended: registerUser with a bound or a retired handle always fails;
\* for a caller that is not registered, in its cooldown or not, with "Handle
\* already taken" and "Handle permanently retired"; for a caller that is
\* registered with "User already registered".
BoundOrRetiredRefused ==
    \A a \in Addresses, h \in Handles :
        /\ handleToAddress[h] # ZeroAddress =>
               RegisterError(a, h) =
                   IF Registered(a) THEN "User already registered"
                   ELSE "Handle already taken"
        /\ deletedHandles[h] =>
               RegisterError(a, h) =
                   IF Registered(a) THEN "User already registered"
                   ELSE "Handle permanently retired"

\* An identity in its cooldown asks for the handle of the other identity and
\* for its own retired handle, and meets the error of the handle both times.
CooldownCallerMeetsHandleErrors ==
    \E a, b \in Addresses, h, g \in Handles :
        /\ ~Registered(a)
        /\ lastDeletionTime[a] > 0
        /\ now < lastDeletionTime[a] + REREGISTRATION_COOLDOWN
        /\ handleToAddress[h] = b
        /\ deletedHandles[g]
        /\ RegisterError(a, h) = "Handle already taken"
        /\ RegisterError(a, g) = "Handle permanently retired"

\* C25: getAccountStatus(u) reads isRegistered = the account exists,
\* isPendingDeletion = a request time is set, deletionTime = request time + 7
\* days when pending and 0 otherwise, canReregister = never deleted or now >=
\* last deletion + 30 days; executeAccountDeletion(u) succeeds exactly when
\* isPendingDeletion holds and now >= deletionTime.
AccountStatusCorrect ==
    \A u \in Addresses :
        LET status == GetAccountStatus(u) IN
        /\ status.isRegistered <=> Registered(u)
        /\ status.isPendingDeletion <=> users[u].deletionRequestedAt # 0
        /\ status.isPendingDeletion => status.isRegistered
        /\ status.deletionTime =
               IF Pending(u)
               THEN users[u].deletionRequestedAt + DELETION_GRACE_PERIOD ELSE 0
        /\ status.canReregister <=>
               \/ lastDeletionTime[u] = 0
               \/ now >= lastDeletionTime[u] + REREGISTRATION_COOLDOWN
        /\ \A s \in Addresses :
               ExecuteError(s, u) = "ok" <=>
                   (status.isPendingDeletion /\ now >= status.deletionTime)

\* The deletion of one account has just become executable, exactly at its
\* deletionTime, and the other identity, deleted, cannot register yet.
StatusAtDeletionTime ==
    \E a, b \in Addresses :
        /\ GetAccountStatus(a).isPendingDeletion
        /\ GetAccountStatus(a).deletionTime = now
        /\ ExecuteError(b, a) = "ok"
        /\ ~GetAccountStatus(b).isRegistered
        /\ ~GetAccountStatus(b).canReregister
        /\ GetAccountStatus(b).deletionTime = 0

\* C26 as stated: while an account is pending deletion, registerUser with its
\* handle fails with "Handle already taken" for every caller.
PendingHandleTakenForAnyone ==
    \A a, b \in Addresses :
        Pending(a) => RegisterError(b, users[a].xHandle) = "Handle already taken"

\* C26 as amended: a successful requestAccountDeletion changes only the
\* caller's request time, set to now; while the account is pending its handle
\* stays bound to it: registerUser with that handle fails for every caller
\* (with "Handle already taken" for one that is not registered, with "User
\* already registered" for one that is), isHandleAvailable is false, the reads
\* by handle resolve to the account, and the profile reads succeed as they do
\* for an account that is not pending.
RequestKeepsAccountUsable ==
    /\ [](\A a \in Addresses :
              Pending(a) =>
                  LET h == users[a].xHandle IN
                  /\ handleToAddress[h] = a
                  /\ ~IsHandleAvailable(h)
                  /\ GetUserKudos(a, h).kudos = users[a].kudosReceived
                  /\ \A b \in Addresses :
                         /\ RegisterError(b, h) =
                                IF Registered(b) THEN "User already registered"
                                ELSE "Handle already taken"
                         /\ GetUserKudos(b, h).error = "ok"
                         /\ GetUserByHandle(b, h) = GetUserByAddress(b, a)
                         /\ GetUserByHandle(b, h) =
                                IF privateProfiles[a] /\ b # a
                                THEN Reverted("Profile is private")
                                ELSE [error |-> "ok", user |-> users[a],
                                      kudos |-> users[a].kudosReceived])
    /\ [][UNCHANGED vars \/ \A a \in Addresses :
               (RequestError(a) = "ok" /\ RequestAccountDeletion(a)) =>
                   /\ users' = [users EXCEPT ![a].deletionRequestedAt = now]
                   /\ UNCHANGED <<handleToAddress, processedTweets,
                                  deletedHandles, lastDeletionTime,
                                  privateProfiles, kudosHistory>>]_vars

\* A public account with a kudos received is pending deletion since an
\* earlier block; the other identity, not registered, still reads its profile
\* and cannot take its handle.
PendingProfileStillRead ==
    \E a, b \in Addresses :
        /\ Pending(a)
        /\ users[a].deletionRequestedAt < now
        /\ users[a].kudosReceived > 0
        /\ ~Registered(b)
        /\ GetUserByHandle(b, users[a].xHandle).user = users[a]
        /\ RegisterError(b, users[a].xHandle) = "Handle already taken"

\* What of the account of x is its own: the record but for kudosReceived, the
\* privacy flag and the binding of handles to x.
SameAccount(x) ==
    /\ users'[x] = users[x]
    /\ privateProfiles'[x] = privateProfiles[x]
    /\ \A h \in Handles : handleToAddress'[h] = x <=> handleToAddress[h] = x

\* C27: no call by y changes the registration, binding, privacy flag or
\* request time of another identity x, but executeAccountDeletion(x) when x
\* has a pending request whose grace period has elapsed; beyond that the only
\* effect of y on the account of x is one more kudosReceived by a successful
\* giveKudos to x.  requestAccountDeletion, cancelAccountDeletion,
\* deleteAccountImmediately and setProfilePrivacy act on the caller alone.
OnlyOwnAccount ==
    [][UNCHANGED vars \/ \A x, y \in Addresses :
           x # y =>
               /\ \A h \in Handles : RegisterUser(y, h) => SameAccount(x)
               /\ RequestAccountDeletion(y) => SameAccount(x)
               /\ CancelAccountDeletion(y) => SameAccount(x)
               /\ DeleteAccountImmediately(y) => SameAccount(x)
               /\ \A p \in BOOLEAN : SetProfilePrivacy(y, p) => SameAccount(x)
               /\ \A s \in Addresses :
                      ExecuteAccountDeletion(s, y) => SameAccount(x)
               /\ ExecuteAccountDeletion(y, x) =>
                      /\ Pending(x)
                      /\ now >= users[x].deletionRequestedAt + DELETION_GRACE_PERIOD
               /\ \A h \in Handles, u \in TweetUrls :
                      GiveKudos(y, h, u) =>
                          /\ privateProfiles'[x] = privateProfiles[x]
                          /\ UNCHANGED handleToAddress
                          /\ IF handleToAddress[h] = x
                             THEN users'[x] =
                                      [users[x] EXCEPT !.kudosReceived = @ + 1]
                             ELSE users'[x] = users[x]]_vars

\* An account that received a kudos from the other identity is pending
\* deletion, its grace period has elapsed, and the other identity may execute
\* the deletion but is refused everything else on its own account.
ThirdPartyMayExecute ==
    \E x, y \in Addresses :
        /\ x # y
        /\ Pending(x)
        /\ users[x].kudosReceived >= 1
        /\ kudosHistory[1].from = y
        /\ ~Registered(y)
        /\ ExecuteError(y, x) = "ok"
        /\ CancelError(y) # "ok"

\* C28: cancelAccountDeletion by the owner succeeds whenever its request is
\* pending, after the grace period too; of a cancel and an execute both
\* possible, the one applied first succeeds and the other then fails: after
\* the cancel the account is active with its handle bound and the execute
\* meets "No deletion request pending", after the execute the account is
\* gone with its handle retired and the cancel meets "User not registered";
\* a handle is never both bound and retired.
CancelExecuteRace ==
    /\ [](/\ \A a \in Addresses :
                /\ Pending(a) => CancelError(a) = "ok"
                /\ Registered(a) =>
                       /\ handleToAddress[users[a].xHandle] = a
                       /\ ~deletedHandles[users[a].xHandle]
           /\ \A h \in Handles :
                  deletedHandles[h] => handleToAddress[h] = ZeroAddress)
    /\ [][UNCHANGED vars \/ \A u \in Addresses :
               /\ (CancelError(u) = "ok" /\ CancelAccountDeletion(u)) =>
                      /\ Active(u)'
                      /\ handleToAddress'[users[u].xHandle] = u
                      /\ \A s \in Addresses :
                             (ExecuteError(s, u))' = "No deletion request pending"
               /\ \A s \in Addresses :
                      (ExecuteError(s, u) = "ok" /\ ExecuteAccountDeletion(s, u)) =>
                          /\ ~Registered(u)'
                          /\ deletedHandles'[users[u].xHandle]
                          /\ handleToAddress'[users[u].xHandle] = ZeroAddress
                          /\ (CancelError(u))' = "User not registered"]_vars

\* The grace period of a request has elapsed for more than a second; the
\* owner may still cancel and the other identity may execute.
BothPossibleAfterGrace ==
    \E a, b \in Addresses :
        /\ a # b
        /\ Pending(a)
        /\ now > users[a].deletionRequestedAt + DELETION_GRACE_PERIOD
        /\ CancelError(a) = "ok"
        /\ ExecuteError(b, a) = "ok"

\* the records that name a as recipient, or as sender, since it registered
\* its current account
ReceivedSince(a) ==
    {i \in 1..Len(kudosHistory) :
         /\ kudosHistory[i].to = a
         /\ kudosHistory[i].timestamp >= users[a].registeredAt}

GivenSince(a) ==
    {i \in 1..Len(kudosHistory) :
         /\ kudosHistory[i].from = a
         /\ kudosHistory[i].timestamp >= users[a].registeredAt}

\* C29: for every registered identity kudosReceived is the number of records
\* that name it as recipient since its current registration (they are the
\* ones that carry its current handle), and kudosGiven the number that name
\* it as sender; a new registration starts both at zero, with the older
\* records still in the history, and neither decreases while the account
\* exists.
CountersMatchLedger ==
    /\ [](\A a \in Addresses :
              Registered(a) =>
                  /\ users[a].kudosReceived = Cardinality(ReceivedSince(a))
                  /\ users[a].kudosGiven = Cardinality(GivenSince(a))
                  /\ \A i \in 1..Len(kudosHistory) :
                         /\ i \in ReceivedSince(a) <=>
                                kudosHistory[i].toHandle = users[a].xHandle
                         /\ i \in GivenSince(a) <=>
                                kudosHistory[i].fromHandle = users[a].xHandle)
    /\ [][UNCHANGED vars \/ \A a \in Addresses :
               /\ (Registered(a) /\ Registered(a)') =>
                      /\ users'[a].kudosReceived >= users[a].kudosReceived
                      /\ users'[a].kudosGiven >= users[a].kudosGiven
               /\ (~Registered(a) /\ Registered(a)') =>
                      /\ users'[a].kudosReceived = 0
                      /\ users'[a].kudosGiven = 0
                      /\ kudosHistory' = kudosHistory]_vars

\* An identity received a kudos, deleted its account, registered again and
\* received another: the history names it twice as recipient, its counter
\* says one.
CounterRestarted ==
    \E a \in Addresses :
        /\ Len(kudosHistory) = 2
        /\ kudosHistory[1].to = a
        /\ kudosHistory[2].to = a
        /\ kudosHistory[1].toHandle # kudosHistory[2].toHandle
        /\ Registered(a)
        /\ users[a].kudosReceived = 1

\* C30 as stated: every giveKudos whose sender or whose recipient is pending
\* deletion fails with the pending-deletion error.
PendingPartyPendingError ==
    \A a \in Addresses, h \in Handles, u \in TweetUrls :
        /\ Pending(a) => GiveKudosError(a, h, u) = "Account pending deletion"
        /\ (handleToAddress[h] # ZeroAddress /\ Pending(handleToAddress[h])) =>
               GiveKudosError(a, h, u) \in
                   {"Account pending deletion", "Recipient pending deletion"}

\* C30 as amended: every giveKudos with a pending sender fails with "Account
\* pending deletion"; every giveKudos to a pending recipient fails, with
\* "Recipient pending deletion" when the sender is registered and not pending
\* and the tweet URL is non-empty and unused, and with the error of the
\* earlier check otherwise; so the counters of an account do not change while
\* it is pending.
PendingBlocksKudos ==
    /\ [](\A a \in Addresses, h \in Handles, u \in TweetUrls :
              /\ Pending(a) => GiveKudosError(a, h, u) = "Account pending deletion"
              /\ (handleToAddress[h] # ZeroAddress
                     /\ Pending(handleToAddress[h])) =>
                     GiveKudosError(a, h, u) =
                         IF ~Registered(a) THEN "User not registered"
                         ELSE IF Pending(a) THEN "Account pending deletion"
                         ELSE IF u = "" THEN "Tweet URL required"
                         ELSE IF processedTweets[u] THEN "Tweet already processed"
                         ELSE "Recipient pending deletion")
    /\ [][UNCHANGED vars \/ \A a \in Addresses :
               (Pending(a) /\ Pending(a)') =>
                   /\ users'[a].kudosReceived = users[a].kudosReceived
                   /\ users'[a].kudosGiven = users[a].kudosGiven]_vars

\* An active sender names, with an unused tweet URL, a recipient that has
\* received a kudos before and is now pending deletion.
KudosToPendingRefused ==
    \E a, b \in Addresses, u \in TweetUrls :
        /\ Active(a)
        /\ Pending(b)
        /\ users[b].kudosReceived = 1
        /\ u # ""
        /\ ~processedTweets[u]
        /\ GiveKudosError(a, users[b].xHandle, u) = "Recipient pending deletion"

\* C31: no handle is both bound and retired: a retired handle has no entry in
\* handleToAddress and a bound handle is not in deletedHandles, so no call of
\* registerUser meets the condition of "Handle already taken" and that of
\* "Handle permanently retired" for the same handle.
BoundXorRetired ==
    \A h \in Handles :
        /\ deletedHandles[h] => handleToAddress[h] = ZeroAddress
        /\ handleToAddress[h] # ZeroAddress => ~deletedHandles[h]
        /\ ~(handleToAddress[h] # ZeroAddress /\ deletedHandles[h])

\* An identity deleted its account and registered again: its old handle is
\* retired and unbound, its new one bound and not retired.
RetiredBesideBound ==
    \E a \in Addresses, h \in Handles :
        /\ Registered(a)
        /\ h # users[a].xHandle
        /\ handleToAddress[users[a].xHandle] = a
        /\ lastDeletionTime[a] > 0
        /\ deletedHandles[h]
        /\ RegisterError(a, h) = "User already registered"

\* C32: a set privacy flag and a set request time are found on registered
\* identities only: each deletion clears both, and an identity that registers
\* (again) starts public and without a pending request.
FlagsOnlyOnRegistered ==
    /\ [](\A a \in Addresses :
              /\ privateProfiles[a] => Registered(a)
              /\ users[a].deletionRequestedAt > 0 => Registered(a))
    /\ [][UNCHANGED vars \/ \A a \in Addresses :
               /\ Deleted(a) =>
                      /\ ~privateProfiles'[a]
                      /\ users'[a].deletionRequestedAt = 0
               /\ (~Registered(a) /\ Registered(a)') =>
                      /\ ~privateProfiles'[a]
                      /\ users'[a].deletionRequestedAt = 0]_vars

\* An identity that deleted an account is registered again, a cooldown later,
\* public and with no request pending, and may now set its profile private.
ReRegisteredStartsPublic ==
    \E a \in Addresses :
        /\ lastDeletionTime[a] > 0
        /\ Registered(a)
        /\ users[a].registeredAt >= lastDeletionTime[a] + REREGISTRATION_COOLDOWN
        /\ ~privateProfiles[a]
        /\ users[a].deletionRequestedAt = 0
        /\ SetPrivacyError(a) = "ok"

\* C33: for every tweet the handler reports with status success, the record
\* its giveKudos appended has as from the address bound to the handle of the
\* tweet's author, the one the handler looked up.
SuccessAttributedToAuthor ==
    (webhook.status = "success" /\ webhook.appended > 0) =>
        kudosHistory[webhook.appended].from = webhook.giverAddress

\* C33, the tweet of an unbound author: it is reported skipped, and the
\* handler neither simulates nor sends a giveKudos for it.
UnboundAuthorSkipped ==
    [][(WebhookLookup /\ handleToAddress[webhook.giver] = ZeroAddress) =>
           /\ webhook'.status = "skipped"
           /\ webhook'.pc = "idle"
           /\ UNCHANGED storage]_vars

\* C34: whenever the form shows an availability result (handleAvailable not
\* null and checkingHandle false), the result was computed for the handle
\* now in the input field.
ShownResultIsCurrent ==
    (form.handleAvailable # "null" /\ ~form.checkingHandle) =>
        form.resultFor = form.xHandle

\* C34, the same seen as a step: the answer to a check of a handle that is
\* no longer the one in the input field leaves handleAvailable and
\* checkingHandle alone.
StaleAnswerDropped ==
    [][\A i \in 1..MaxChecks :
           (CheckResumes(i) /\ form.checks[i].handle # form.xHandle) =>
               /\ form'.handleAvailable = form.handleAvailable
               /\ form'.checkingHandle = form.checkingHandle]_vars

====
